---- MODULE Spec2Model ----
(***************************************************************************)
(* Patient-Symptoms-Checker: the client-side conversation orchestrator     *)
(* (src/src/App.tsx), the AudioRecorder component it mounts                *)
(* (src/src/components/AudioRecorder.tsx) and the browser's speech queue.  *)
(*                                                                         *)
(* Text is a sequence of one-character strings, so that trim(),            *)
(* toLowerCase(), split('\n')[0] and replace(/[^a-z]/g, "") are computed   *)
(* and not assumed.  A question is named by a short identifier.            *)
(*                                                                         *)
(* React state updates made by one handler (or by one continuation of an   *)
(* async function) are committed together, and the effects whose           *)
(* dependencies changed run right after the commit: an action is the       *)
(* handler plus those effects.                                             *)
(***************************************************************************)
EXTENDS Integers, Sequences, FiniteSets, TLC

\* ------------------------------------------------------------------ bounds

\* Longest question list the FollowUpGeneration service returns in the model.
MaxDynQuestions == 2
\* Largest value of the recorder's elapsed-seconds counter that is explored.
MaxTicks == 1

\* Takes the recorder may produce in one run (each start of a recording after
\* the last allowed take is not explored).
MaxTakes == 2
\* Backend calls that may be in flight together in the earlier orchestrator,
\* whose Next button stays enabled while a call is pending.
MaxPending == 2
\* Length of the history (requests and outcomes) up to which the earlier
\* orchestrator's patient may start another backend call.
MaxHistory == 8

\* Longest raw label enumerated when the normalisation is checked on its own.
MaxLabelLen == 3

\* -------------------------------------------------------------------- text

IsSpace(c) == c \in {" ", "\n"}

RECURSIVE TrimLeft(_)
TrimLeft(s) ==
  IF s # <<>> /\ IsSpace(Head(s)) THEN TrimLeft(Tail(s)) ELSE s

RECURSIVE TrimRight(_)
TrimRight(s) ==
  IF s # <<>> /\ IsSpace(s[Len(s)]) THEN TrimRight(SubSeq(s, 1, Len(s) - 1)) ELSE s

\* String.prototype.trim
trim(s) == TrimRight(TrimLeft(s))

\* Mutant of IsBlank: the answer is tested without trim().
IsBlank_NoTrim(s) == s = <<>>

\* `!answer.trim()`
IsBlank(s) == trim(s) = <<>>

UpperToLower ==
  [F |-> "f", B |-> "b", P |-> "p", C |-> "c"]

LowerCaseChar(c) == IF c \in DOMAIN UpperToLower THEN UpperToLower[c] ELSE c

\* String.prototype.toLowerCase
toLowerCase(s) == [i \in 1..Len(s) |-> LowerCaseChar(s[i])]

LowerLetters ==
  {"a", "b", "c", "d", "e", "f", "g", "h", "i", "j", "k", "l", "m",
   "n", "o", "p", "q", "r", "s", "t", "u", "v", "w", "x", "y", "z"}

\* Mutant of firstLine: the whole response is taken.
firstLine_WholeText(s) == s

\* symptom.split('\n')[0]
RECURSIVE firstLine(_)
firstLine(s) ==
  IF s = <<>> \/ Head(s) = "\n" THEN <<>> ELSE <<Head(s)>> \o firstLine(Tail(s))

\* .replace(/[^a-z]/g, "")
RECURSIVE StripNonLetters(_)
StripNonLetters(s) ==
  IF s = <<>> THEN <<>>
  ELSE (IF Head(s) \in LowerLetters THEN <<Head(s)>> ELSE <<>>) \o StripNonLetters(Tail(s))

\* The characters of a text joined into one string (a property name).
RECURSIVE Join(_)
Join(s) == IF s = <<>> THEN "" ELSE Head(s) \o Join(Tail(s))

\* ------------------------------------------------------------ JS arrays

\* Array(n).fill("")
Blanks(n) == [i \in 1..n |-> <<>>]

\* `answers[i] || ""` (i counts from 0, as in the source)
AnswerAt(answers, i) == IF i + 1 \in DOMAIN answers THEN answers[i + 1] ELSE <<>>

\* Mutant of SetAt: the value is pushed at the end of the list.
SetAt_Push(answers, i, value) == Append(answers, value)

\* `newAnswers = [...answers]; newAnswers[i] = value` (a hole reads as "")
SetAt(answers, i, value) ==
  [j \in 1..(IF i + 1 > Len(answers) THEN i + 1 ELSE Len(answers)) |->
     IF j = i + 1 THEN value ELSE AnswerAt(answers, j - 1)]

\* `questions.map((q, i) => ({question: q, answer: answers[i] || ""}))`
QA(questions, answers) ==
  [i \in 1..Len(questions) |->
     [question |-> questions[i], answer |-> AnswerAt(answers, i - 1)]]

\* ------------------------------------------------- FollowUpQuestionBank

\* Mutant of staticFollowUpQuestionsMapping: two fever questions change places.
staticFollowUpQuestionsMapping_FeverReordered ==
  [fever     |-> <<"fever2", "fever1", "fever3">>,
   coughing  |-> <<"coughing1", "coughing2", "coughing3">>,
   headache  |-> <<"headache1", "headache2", "headache3">>,
   backpain  |-> <<"backpain1", "backpain2", "backpain3">>,
   toothache |-> <<"toothache1", "toothache2", "toothache3">>]

staticFollowUpQuestionsMapping ==
  [fever     |-> <<"fever1", "fever2", "fever3">>,
   coughing  |-> <<"coughing1", "coughing2", "coughing3">>,
   headache  |-> <<"headache1", "headache2", "headache3">>,
   backpain  |-> <<"backpain1", "backpain2", "backpain3">>,
   toothache |-> <<"toothache1", "toothache2", "toothache3">>]

\* The mapping is an object literal, so `mapping[key]` also finds what
\* Object.prototype provides.  "constructor" is the one inherited property
\* whose name a cleaned key (letters a-z only) can equal; its value is the
\* function Object, which is truthy and whose .length is 1.
ObjectPrototypeKeys == {"constructor"}
ObjectFunctionLength == 1

\* `const cleanedSymptom = firstLine.toLowerCase().trim().replace(/[^a-z]/g, "")`
cleanedSymptom(symptom) ==
  Join(StripNonLetters(trim(toLowerCase(firstLine(symptom)))))

\* Mutant of MappingHas: the lookup never finds a static set.
MappingHas_Never(key) == FALSE

\* Truthiness of `staticFollowUpQuestionsMapping[cleanedSymptom]`.
MappingHas(key) ==
  key \in DOMAIN staticFollowUpQuestionsMapping \/ key \in ObjectPrototypeKeys

\* ----------------------------------------------------------------- inputs

\* Texts the Transcription service returns.
TranscriptTexts == {<<"a">>}
\* Texts the patient types into the review box.
TranscriptEdits == {<<>>, <<"b">>}
\* Texts the patient types into an answer box.
AnswerTexts == {<<>>, <<" ">>, <<" ", "a">>}

L_Fever == <<"F", "e", "v", "e", "r">>
L_FeverThenMore == <<"f", "e", "v", "e", "r", "\n", "f", "l", "u">>
L_BackPain == <<"B", "a", "c", "k", " ", "P", "a", "i", "n", ".">>
L_Unrecognized ==
  <<"u", "n", "r", "e", "c", "o", "g", "n", "i", "z", "e", "d", "t", "o", "k", "e", "n">>
L_HighFever == <<"h", "i", "g", "h", " ", "f", "e", "v", "e", "r">>
L_Constructor == <<"C", "o", "n", "s", "t", "r", "u", "c", "t", "o", "r">>
L_Empty == <<>>

\* Labels the SymptomExtraction service returns.
SymptomLabels ==
  {L_Fever, L_FeverThenMore, L_HighFever, L_BackPain, L_Unrecognized, L_Constructor,
   L_Empty}

\* Labels explored with the earlier orchestrator.
EarlySymptomLabels == {L_Fever, L_Unrecognized, L_Constructor}

\* Question lists the FollowUpGeneration service returns.
DynamicList(n) == [i \in 1..n |-> IF i = 1 THEN "dyn1" ELSE IF i = 2 THEN "dyn2" ELSE "dyn3"]
DynamicLists == {DynamicList(n) : n \in 0..MaxDynQuestions}

\* ------------------------------------------------------------------ state

VARIABLES
  \* App (useState)
  step, recordedBlob, transcript, editedTranscript, extractedSymptom,
  staticFollowUpQuestions, staticFollowUpAnswers,
  dynamicFollowUpQuestions, dynamicFollowUpAnswers,
  currentStaticIndex, currentDynamicIndex,
  guidelines, loading, overlayVisible, welcomeSpoken, errorMsg,
  \* AudioRecorder (useState / useRef of the mounted instance)
  isRecording, recordingTime, mediaRecorderRef, timerRef, micPending,
  \* the Take a recorder with playback holds (0: none), shown through audioUrl
  recordingBlob,
  \* browser resources that outlive an instance
  streamsHeld, takeSeq, orphanMic, orphanStop, leakedTimers,
  \* window.speechSynthesis: the utterances spoken or queued
  speechQueue,
  \* backend calls in flight, in the order they were issued
  pending,
  \* history: every request issued and every outcome, and the last handler that ran
  history, lastEvent

appVars ==
  <<step, recordedBlob, transcript, editedTranscript, extractedSymptom,
    staticFollowUpQuestions, staticFollowUpAnswers,
    dynamicFollowUpQuestions, dynamicFollowUpAnswers,
    currentStaticIndex, currentDynamicIndex,
    guidelines, loading, overlayVisible, welcomeSpoken, errorMsg>>

recorderVars ==
  <<isRecording, recordingTime, mediaRecorderRef, timerRef, micPending,
    streamsHeld, takeSeq, orphanMic, orphanStop, leakedTimers, recordingBlob>>

vars == <<appVars, recorderVars, speechQueue, pending, history, lastEvent>>

\* useState initial values (App.tsx 743-759, AudioRecorder.tsx 9-13)
Init ==
  /\ step = "initial"
  /\ recordedBlob = 0
  /\ transcript = <<>>
  /\ editedTranscript = <<>>
  /\ extractedSymptom = ""
  /\ staticFollowUpQuestions = <<>>
  /\ staticFollowUpAnswers = <<>>
  /\ dynamicFollowUpQuestions = <<>>
  /\ dynamicFollowUpAnswers = <<>>
  /\ currentStaticIndex = 0
  /\ currentDynamicIndex = 0
  /\ guidelines = ""
  /\ loading = FALSE
  /\ overlayVisible = TRUE
  /\ welcomeSpoken = FALSE
  /\ errorMsg = ""
  /\ isRecording = FALSE
  /\ recordingTime = 0
  /\ mediaRecorderRef = "null"
  /\ timerRef = "null"
  /\ micPending = FALSE
  /\ streamsHeld = 0
  /\ takeSeq = 0
  /\ orphanMic = 0
  /\ orphanStop = 0
  /\ leakedTimers = 0
  /\ recordingBlob = 0
  /\ speechQueue = <<>>
  /\ pending = <<>>
  /\ history = <<>>
  /\ lastEvent = "none"

\* -------------------------------------------------------------- helpers

qaVars ==
  <<staticFollowUpQuestions, staticFollowUpAnswers,
    dynamicFollowUpQuestions, dynamicFollowUpAnswers,
    currentStaticIndex, currentDynamicIndex>>

gateVars == <<overlayVisible, welcomeSpoken>>

Remove(seq, i) == SubSeq(seq, 1, i - 1) \o SubSeq(seq, i + 1, Len(seq))

Request(svc, take, text, key, qa) ==
  [ev |-> "request", svc |-> svc, take |-> take, transcript |-> text, key |-> key,
   qa |-> qa]

\* result is "ok" (the awaited call returned) or "failed" (it threw)
Outcome(svc, result) ==
  [ev |-> result, svc |-> svc, take |-> 0, transcript |-> <<>>, key |-> "", qa |-> <<>>]

\* A fetch() is started: it is in flight (with the transcript its async
\* function closed over) and the request is on record.
Issue(basePending, baseHistory, svc, take, text, key, qa) ==
  /\ pending' = Append(basePending, [svc |-> svc, cap |-> text])
  /\ history' = Append(baseHistory, Request(svc, take, text, key, qa))

\* The awaited call pending[i] returns or throws.
Complete(i, result) ==
  /\ pending' = Remove(pending, i)
  /\ history' = Append(history, Outcome(pending[i].svc, result))

\* Mutant of Covered: the start-up overlay lets clicks through.
Covered_ModalOnly == errorMsg # ""

\* The start-up overlay (absolute inset-0 z-50) and the error Modal
\* (fixed inset-0 z-50) lie over every other control.
Covered == overlayVisible \/ errorMsg # ""

\* -------------------------------------------------------- AudioRecorder

\* <AudioRecorder autoStart={true}/> is rendered: a fresh instance whose
\* mount effect calls startRecording(), which awaits getUserMedia.
MountRecorder ==
  /\ isRecording' = FALSE
  /\ recordingTime' = 0
  /\ mediaRecorderRef' = "null"
  /\ timerRef' = "null"
  /\ micPending' = TRUE
  /\ UNCHANGED <<streamsHeld, takeSeq, orphanMic, orphanStop, leakedTimers, recordingBlob>>

\* The instance is unmounted: the effect cleanup clears its interval; its
\* state is gone; a getUserMedia promise or a queued stop event of the
\* instance is still delivered later.  The stream is not released.
UnmountRecorder ==
  /\ isRecording' = FALSE
  /\ recordingTime' = 0
  /\ mediaRecorderRef' = "null"
  /\ timerRef' = "null"
  /\ micPending' = FALSE
  /\ orphanMic' = orphanMic + (IF micPending THEN 1 ELSE 0)
  /\ orphanStop' = orphanStop + (IF mediaRecorderRef = "stopping" THEN 1 ELSE 0)
  /\ UNCHANGED <<streamsHeld, takeSeq, leakedTimers, recordingBlob>>

\* What a change of step does to the recorder, rendered only in 'recording'.
RecorderOnStep(newStep) ==
  IF step = "recording" /\ newStep # "recording" THEN UnmountRecorder
  ELSE IF step # "recording" /\ newStep = "recording" THEN MountRecorder
  ELSE UNCHANGED recorderVars

\* startRecording, after `await getUserMedia` resolved
MicGranted ==
  /\ micPending
  /\ micPending' = FALSE
  /\ streamsHeld' = streamsHeld + 1
  /\ mediaRecorderRef' = "recording"
  /\ isRecording' = TRUE
  /\ timerRef' = "live"
  /\ lastEvent' = "micGranted"
  /\ UNCHANGED <<appVars, recordingTime, takeSeq, orphanMic, orphanStop, leakedTimers, recordingBlob,
                 speechQueue, pending, history>>

\* startRecording, catch branch: getUserMedia rejected, alert(...)
MicDenied ==
  /\ micPending
  /\ micPending' = FALSE
  /\ lastEvent' = "micDenied"
  /\ UNCHANGED <<appVars, isRecording, recordingTime, mediaRecorderRef, timerRef,
                 streamsHeld, takeSeq, orphanMic, orphanStop, leakedTimers, recordingBlob,
                 speechQueue, pending, history>>

\* the setInterval callback
Tick ==
  /\ timerRef = "live"
  /\ recordingTime < MaxTicks
  /\ recordingTime' = recordingTime + 1
  /\ UNCHANGED <<appVars, isRecording, mediaRecorderRef, timerRef, micPending,
                 streamsHeld, takeSeq, orphanMic, orphanStop, leakedTimers, recordingBlob,
                 speechQueue, pending, history, lastEvent>>

\* The Stop Recording button is rendered and can be clicked.
CanStopRecording == step = "recording" /\ isRecording /\ ~Covered

\* Mutant of stopRecording: setIsRecording(false) is left out.
stopRecording_KeepsFlag ==
  /\ CanStopRecording
  /\ mediaRecorderRef # "null" /\ isRecording
  /\ mediaRecorderRef' = "stopping"
  /\ lastEvent' = "stopRecording"
  /\ UNCHANGED <<appVars, isRecording, recordingTime, timerRef, micPending,
                 streamsHeld, takeSeq, orphanMic, orphanStop, leakedTimers, recordingBlob,
                 speechQueue, pending, history>>

stopRecording ==
  /\ CanStopRecording
  /\ mediaRecorderRef # "null" /\ isRecording
  /\ mediaRecorderRef' = "stopping"
  /\ isRecording' = FALSE
  /\ lastEvent' = "stopRecording"
  /\ UNCHANGED <<appVars, recordingTime, timerRef, micPending,
                 streamsHeld, takeSeq, orphanMic, orphanStop, leakedTimers, recordingBlob,
                 speechQueue, pending, history>>

\* handleRecordingComplete up to its `await transcribeAudio(blob)`
handleRecordingComplete(blob) ==
  /\ recordedBlob' = blob
  /\ speechQueue' = Append(speechQueue, "stopped")
  /\ loading' = TRUE
  /\ Issue(pending, history, "Transcription", blob, <<>>, "", <<>>)
  /\ lastEvent' = "recordingComplete"
  /\ UNCHANGED <<step, transcript, editedTranscript, extractedSymptom, qaVars,
                 guidelines, gateVars, errorMsg>>

\* mediaRecorder.onstop of the mounted instance
onstop ==
  /\ mediaRecorderRef = "stopping"
  /\ mediaRecorderRef' = "inactive"
  /\ IF timerRef # "null"
       THEN timerRef' = "cleared" /\ recordingTime' = 0
       ELSE UNCHANGED <<timerRef, recordingTime>>
  /\ takeSeq' = takeSeq + 1
  /\ handleRecordingComplete(takeSeq + 1)
  /\ UNCHANGED <<isRecording, micPending, streamsHeld, orphanMic, orphanStop, leakedTimers, recordingBlob>>

\* ------------------------------------------------------- SpeechNarrator

\* The utterance at the head of the queue finishes playing.
UtteranceEnds ==
  /\ speechQueue # <<>>
  /\ speechQueue' = Tail(speechQueue)
  /\ UNCHANGED <<appVars, recorderVars, pending, history, lastEvent>>

\* ------------------------------------------- App: gate, start, review

handleOverlayClick ==
  /\ overlayVisible
  /\ IF ~welcomeSpoken
       THEN speechQueue' = Append(speechQueue, "welcome") /\ welcomeSpoken' = TRUE
       ELSE UNCHANGED <<speechQueue, welcomeSpoken>>
  /\ overlayVisible' = FALSE
  /\ lastEvent' = "overlayClick"
  /\ UNCHANGED <<step, recordedBlob, transcript, editedTranscript, extractedSymptom,
                 qaVars, guidelines, loading, errorMsg, recorderVars, pending, history>>

\* Mutant of CanStartRecording: the Start button is offered on every page.
CanStartRecording_AnyStep == ~Covered

\* The Start Recording button of the initial page is rendered and can be clicked.
CanStartRecording == step = "initial" /\ ~Covered

\* Mutant of handleStartRecording: speechSynthesis.cancel() is left out.
handleStartRecording_NoCancel ==
  /\ CanStartRecording
  /\ takeSeq < MaxTakes
  /\ step' = "recording"
  /\ RecorderOnStep("recording")
  /\ lastEvent' = "startRecording"
  /\ UNCHANGED <<recordedBlob, transcript, editedTranscript, extractedSymptom,
                 qaVars, guidelines, loading, gateVars, errorMsg, pending, history,
                 speechQueue>>

handleStartRecording ==
  /\ CanStartRecording
  /\ takeSeq < MaxTakes
  /\ speechQueue' = <<>>
  /\ step' = "recording"
  /\ RecorderOnStep("recording")
  /\ lastEvent' = "startRecording"
  /\ UNCHANGED <<recordedBlob, transcript, editedTranscript, extractedSymptom,
                 qaVars, guidelines, loading, gateVars, errorMsg, pending, history>>

\* speakErrorAndRedirect (App.tsx 762-767): cancel, speak, setErrorMsg
speakErrorAndRedirect ==
  /\ speechQueue' = <<"error">>
  /\ errorMsg' = "error"

\* <Modal onClose={() => setErrorMsg('')}/>
CloseModal ==
  /\ errorMsg # ""
  /\ errorMsg' = ""
  /\ lastEvent' = "closeModal"
  /\ UNCHANGED <<step, recordedBlob, transcript, editedTranscript, extractedSymptom,
                 qaVars, guidelines, loading, gateVars, recorderVars,
                 speechQueue, pending, history>>

\* handleRecordingComplete after the await: try branch, then setLoading(false);
\* the [step] effect speaks the review prompt.
TranscriptionSucceeds ==
  \E i \in DOMAIN pending, text \in TranscriptTexts :
    /\ pending[i].svc = "Transcription"
    /\ Complete(i, "ok")
    /\ transcript' = text
    /\ editedTranscript' = text
    /\ step' = "review"
    /\ loading' = FALSE
    /\ speechQueue' = IF step # "review" THEN <<"review">> ELSE speechQueue
    /\ RecorderOnStep("review")
    /\ lastEvent' = "transcribed"
    /\ UNCHANGED <<recordedBlob, extractedSymptom, qaVars, guidelines, gateVars,
                   errorMsg>>

\* Mutant of TranscriptionFails: the catch branch also shows the review step.
TranscriptionFails_ShowsReview ==
  \E i \in DOMAIN pending :
    /\ pending[i].svc = "Transcription"
    /\ Complete(i, "failed")
    /\ speakErrorAndRedirect
    /\ loading' = FALSE
    /\ step' = "review"
    /\ RecorderOnStep("review")
    /\ lastEvent' = "transcriptionFailed"
    /\ UNCHANGED <<recordedBlob, transcript, editedTranscript, extractedSymptom,
                   qaVars, guidelines, gateVars>>

\* handleRecordingComplete after the await: catch branch, then setLoading(false)
TranscriptionFails ==
  \E i \in DOMAIN pending :
    /\ pending[i].svc = "Transcription"
    /\ Complete(i, "failed")
    /\ speakErrorAndRedirect
    /\ loading' = FALSE
    /\ lastEvent' = "transcriptionFailed"
    /\ UNCHANGED <<step, recordedBlob, transcript, editedTranscript, extractedSymptom,
                   qaVars, guidelines, gateVars, recorderVars>>

\* the review textarea's onChange
EditTranscript ==
  /\ step = "review" /\ ~Covered
  /\ \E text \in TranscriptEdits \ {editedTranscript} : editedTranscript' = text
  /\ lastEvent' = "editTranscript"
  /\ UNCHANGED <<step, recordedBlob, transcript, extractedSymptom, qaVars, guidelines,
                 loading, gateVars, errorMsg, recorderVars, speechQueue, pending, history>>

\* The Proceed to Follow-Up button is rendered, not disabled, and can be clicked.
CanProceed == step = "review" /\ ~loading /\ ~Covered

\* Mutant of handleProceedToFollowUp: the call is started from the handler and
\* neither the step nor the loading flag is set.
handleProceedToFollowUp_StaysInReview ==
  /\ CanProceed
  /\ Len(pending) < MaxPending
  /\ speechQueue' = <<"waitFollowup">>
  /\ Issue(pending, history, "SymptomExtraction", 0, editedTranscript, "", <<>>)
  /\ lastEvent' = "proceed"
  /\ UNCHANGED <<step, loading, recordedBlob, transcript, editedTranscript,
                 extractedSymptom, qaVars, guidelines, gateVars, errorMsg, recorderVars>>

\* handleProceedToFollowUp, then the followupLoading effect up to its await
handleProceedToFollowUp ==
  /\ CanProceed
  /\ step' = "followupLoading"
  /\ loading' = TRUE
  /\ speechQueue' = <<"waitFollowup">>
  /\ Issue(pending, history, "SymptomExtraction", 0, editedTranscript, "", <<>>)
  /\ lastEvent' = "proceed"
  /\ UNCHANGED <<recordedBlob, transcript, editedTranscript, extractedSymptom, qaVars,
                 guidelines, gateVars, errorMsg, recorderVars>>

\* ------------------------------------------- App: static follow-up

\* Mutant of dynamicFollowupLoadingEffect: the raw transcript is sent.
dynamicFollowupLoadingEffect_RawTranscript(basePending, baseHistory, key) ==
  /\ speechQueue' = <<"waitDynamic">>
  /\ loading' = TRUE
  /\ Issue(basePending, baseHistory, "FollowUpGeneration", 0, transcript, key,
           QA(staticFollowUpQuestions, staticFollowUpAnswers))

\* The dynamicFollowupLoading effect up to its await: cancel, speak,
\* setLoading(true), generateFollowupQuestions(editedTranscript, key, staticQA)
dynamicFollowupLoadingEffect(basePending, baseHistory, key) ==
  /\ speechQueue' = <<"waitDynamic">>
  /\ loading' = TRUE
  /\ Issue(basePending, baseHistory, "FollowUpGeneration", 0, editedTranscript, key,
           QA(staticFollowUpQuestions, staticFollowUpAnswers))

\* The followupLoading effect after `await extractSymptoms`: try branch, then
\* setLoading(false); then the effect of the step it set.
\* setStaticFollowUpQuestions(f) with f a function is a state updater:
\* Object(previous) is the previous list.
ExtractionSucceeds ==
  \E i \in DOMAIN pending, symptom \in SymptomLabels :
    LET key == cleanedSymptom(symptom)
        own == key \in DOMAIN staticFollowUpQuestionsMapping
        questions == IF own THEN staticFollowUpQuestionsMapping[key]
                     ELSE staticFollowUpQuestions
        slots == IF own THEN Len(staticFollowUpQuestionsMapping[key])
                 ELSE ObjectFunctionLength
    IN
    /\ pending[i].svc = "SymptomExtraction"
    /\ extractedSymptom' = key
    /\ IF MappingHas(key)
         THEN /\ staticFollowUpQuestions' = questions
              /\ staticFollowUpAnswers' = Blanks(slots)
              /\ currentStaticIndex' = 0
              /\ step' = "followup"
              /\ loading' = FALSE
              /\ speechQueue' = IF Len(questions) > 0 THEN <<questions[1]>> ELSE speechQueue
              /\ Complete(i, "ok")
         ELSE /\ step' = "dynamicFollowupLoading"
              /\ dynamicFollowupLoadingEffect(Remove(pending, i),
                                              Append(history, Outcome(pending[i].svc, "ok")), key)
              /\ UNCHANGED <<staticFollowUpQuestions, staticFollowUpAnswers,
                             currentStaticIndex>>
    /\ lastEvent' = "extracted"
    /\ UNCHANGED <<recordedBlob, transcript, editedTranscript,
                   dynamicFollowUpQuestions, dynamicFollowUpAnswers, currentDynamicIndex,
                   guidelines, gateVars, errorMsg, recorderVars>>

\* Mutant of ExtractionFails: the catch branch calls extractSymptoms again.
ExtractionFails_Retries ==
  \E i \in DOMAIN pending :
    /\ pending[i].svc = "SymptomExtraction"
    /\ Issue(Remove(pending, i), Append(history, Outcome(pending[i].svc, "failed")),
             "SymptomExtraction", 0, editedTranscript, "", <<>>)
    /\ Len(history) + 2 <= MaxHistory
    /\ speakErrorAndRedirect
    /\ loading' = FALSE
    /\ lastEvent' = "extractionFailed"
    /\ UNCHANGED <<step, recordedBlob, transcript, editedTranscript, extractedSymptom,
                   qaVars, guidelines, gateVars, recorderVars>>

\* The followupLoading effect after the await: catch branch, then setLoading(false)
ExtractionFails ==
  \E i \in DOMAIN pending :
    /\ pending[i].svc = "SymptomExtraction"
    /\ Complete(i, "failed")
    /\ speakErrorAndRedirect
    /\ loading' = FALSE
    /\ lastEvent' = "extractionFailed"
    /\ UNCHANGED <<step, recordedBlob, transcript, editedTranscript, extractedSymptom,
                   qaVars, guidelines, gateVars, recorderVars>>

\* The static question, its answer box and Next are rendered and can be used.
CanNextStatic == step = "followup" /\ Len(staticFollowUpQuestions) > 0 /\ ~Covered

\* the static answer box's onChange
EditStaticAnswer ==
  /\ CanNextStatic
  /\ \E value \in AnswerTexts \ {AnswerAt(staticFollowUpAnswers, currentStaticIndex)} :
       staticFollowUpAnswers' = SetAt(staticFollowUpAnswers, currentStaticIndex, value)
  /\ lastEvent' = "editStaticAnswer"
  /\ UNCHANGED <<step, recordedBlob, transcript, editedTranscript, extractedSymptom,
                 staticFollowUpQuestions, dynamicFollowUpQuestions, dynamicFollowUpAnswers,
                 currentStaticIndex, currentDynamicIndex, guidelines, loading, gateVars,
                 errorMsg, recorderVars, speechQueue, pending, history>>

handleNextStaticFollowUp ==
  /\ CanNextStatic
  /\ LET answer == AnswerAt(staticFollowUpAnswers, currentStaticIndex) IN
     IF IsBlank(answer)
       THEN /\ lastEvent' = "nextStaticRejected"
            /\ UNCHANGED <<step, currentStaticIndex, loading, speechQueue, pending, history>>
       ELSE IF currentStaticIndex + 1 < Len(staticFollowUpQuestions)
         THEN /\ currentStaticIndex' = currentStaticIndex + 1
              /\ speechQueue' = <<staticFollowUpQuestions[currentStaticIndex + 2]>>
              /\ lastEvent' = "nextStatic"
              /\ UNCHANGED <<step, loading, pending, history>>
         ELSE /\ step' = "dynamicFollowupLoading"
              /\ dynamicFollowupLoadingEffect(pending, history, extractedSymptom)
              /\ lastEvent' = "staticDone"
              /\ UNCHANGED currentStaticIndex
  /\ UNCHANGED <<recordedBlob, transcript, editedTranscript, extractedSymptom,
                 staticFollowUpQuestions, staticFollowUpAnswers,
                 dynamicFollowUpQuestions, dynamicFollowUpAnswers, currentDynamicIndex,
                 guidelines, gateVars, errorMsg, recorderVars>>

\* ------------------------------------------- App: dynamic follow-up

\* The dynamicFollowupLoading effect after `await generateFollowupQuestions`:
\* try branch (loading is not reset), then the narration effect.
GenerationSucceeds ==
  \E i \in DOMAIN pending, questions \in DynamicLists :
    /\ pending[i].svc = "FollowUpGeneration"
    /\ Complete(i, "ok")
    /\ dynamicFollowUpQuestions' = questions
    /\ dynamicFollowUpAnswers' = Blanks(Len(questions))
    /\ currentDynamicIndex' = 0
    /\ step' = "dynamicFollowup"
    /\ speechQueue' = IF Len(questions) > 0 THEN <<questions[1]>> ELSE speechQueue
    /\ lastEvent' = "generated"
    /\ UNCHANGED <<recordedBlob, transcript, editedTranscript, extractedSymptom,
                   staticFollowUpQuestions, staticFollowUpAnswers, currentStaticIndex,
                   guidelines, loading, gateVars, errorMsg, recorderVars>>

\* The dynamicFollowupLoading effect after the await: catch branch
GenerationFails ==
  \E i \in DOMAIN pending :
    /\ pending[i].svc = "FollowUpGeneration"
    /\ Complete(i, "failed")
    /\ speakErrorAndRedirect
    /\ lastEvent' = "generationFailed"
    /\ UNCHANGED <<step, recordedBlob, transcript, editedTranscript, extractedSymptom,
                   qaVars, guidelines, loading, gateVars, recorderVars>>

\* The dynamic question, its answer box and Next are rendered and can be used.
CanNextDynamic == step = "dynamicFollowup" /\ Len(dynamicFollowUpQuestions) > 0 /\ ~Covered

\* the dynamic answer box's onChange
EditDynamicAnswer ==
  /\ CanNextDynamic
  /\ \E value \in AnswerTexts \ {AnswerAt(dynamicFollowUpAnswers, currentDynamicIndex)} :
       dynamicFollowUpAnswers' = SetAt(dynamicFollowUpAnswers, currentDynamicIndex, value)
  /\ lastEvent' = "editDynamicAnswer"
  /\ UNCHANGED <<step, recordedBlob, transcript, editedTranscript, extractedSymptom,
                 staticFollowUpQuestions, staticFollowUpAnswers, dynamicFollowUpQuestions,
                 currentStaticIndex, currentDynamicIndex, guidelines, loading, gateVars,
                 errorMsg, recorderVars, speechQueue, pending, history>>

\* The final effect up to its await: cancel, speak, setLoading(true),
\* generateGuidelines(transcript, extractedSymptom, staticQA, dynamicQA)
finalEffect ==
  /\ speechQueue' = <<"waitFinal">>
  /\ loading' = TRUE
  /\ Issue(pending, history, "GuidelineGeneration", 0, transcript, extractedSymptom,
           QA(staticFollowUpQuestions, staticFollowUpAnswers)
             \o QA(dynamicFollowUpQuestions, dynamicFollowUpAnswers))

\* Mutant of handleNextDynamicFollowUp: a rejected Next goes back to the first
\* question.
handleNextDynamicFollowUp_RejectRewinds ==
  /\ CanNextDynamic
  /\ LET answer == AnswerAt(dynamicFollowUpAnswers, currentDynamicIndex) IN
     IF IsBlank(answer)
       THEN /\ lastEvent' = "nextDynamicRejected"
            /\ currentDynamicIndex' = 0
            /\ UNCHANGED <<step, loading, speechQueue, pending, history>>
       ELSE IF currentDynamicIndex + 1 < Len(dynamicFollowUpQuestions)
         THEN /\ currentDynamicIndex' = currentDynamicIndex + 1
              /\ speechQueue' = <<dynamicFollowUpQuestions[currentDynamicIndex + 2]>>
              /\ lastEvent' = "nextDynamic"
              /\ UNCHANGED <<step, loading, pending, history>>
         ELSE /\ step' = "final"
              /\ finalEffect
              /\ lastEvent' = "dynamicDone"
              /\ UNCHANGED currentDynamicIndex
  /\ UNCHANGED <<recordedBlob, transcript, editedTranscript, extractedSymptom,
                 staticFollowUpQuestions, staticFollowUpAnswers,
                 dynamicFollowUpQuestions, dynamicFollowUpAnswers, currentStaticIndex,
                 guidelines, gateVars, errorMsg, recorderVars>>

handleNextDynamicFollowUp ==
  /\ CanNextDynamic
  /\ LET answer == AnswerAt(dynamicFollowUpAnswers, currentDynamicIndex) IN
     IF IsBlank(answer)
       THEN /\ lastEvent' = "nextDynamicRejected"
            /\ UNCHANGED <<step, currentDynamicIndex, loading, speechQueue, pending, history>>
       ELSE IF currentDynamicIndex + 1 < Len(dynamicFollowUpQuestions)
         THEN /\ currentDynamicIndex' = currentDynamicIndex + 1
              /\ speechQueue' = <<dynamicFollowUpQuestions[currentDynamicIndex + 2]>>
              /\ lastEvent' = "nextDynamic"
              /\ UNCHANGED <<step, loading, pending, history>>
         ELSE /\ step' = "final"
              /\ finalEffect
              /\ lastEvent' = "dynamicDone"
              /\ UNCHANGED currentDynamicIndex
  /\ UNCHANGED <<recordedBlob, transcript, editedTranscript, extractedSymptom,
                 staticFollowUpQuestions, staticFollowUpAnswers,
                 dynamicFollowUpQuestions, dynamicFollowUpAnswers, currentStaticIndex,
                 guidelines, gateVars, errorMsg, recorderVars>>

\* ------------------------------------------------------- App: final

\* The final effect after `await generateGuidelines`: try branch, setLoading(false)
GuidelinesSucceed ==
  \E i \in DOMAIN pending :
    /\ pending[i].svc = "GuidelineGeneration"
    /\ Complete(i, "ok")
    /\ guidelines' = "plan"
    /\ loading' = FALSE
    /\ lastEvent' = "planStored"
    /\ UNCHANGED <<step, recordedBlob, transcript, editedTranscript, extractedSymptom,
                   qaVars, gateVars, errorMsg, recorderVars, speechQueue>>

\* Mutant of GuidelinesFail: the catch branch shows the review step again.
GuidelinesFail_BackToReview ==
  \E i \in DOMAIN pending :
    /\ pending[i].svc = "GuidelineGeneration"
    /\ Complete(i, "failed")
    /\ speakErrorAndRedirect
    /\ loading' = FALSE
    /\ step' = "review"
    /\ lastEvent' = "guidelinesFailed"
    /\ UNCHANGED <<recordedBlob, transcript, editedTranscript, extractedSymptom,
                   qaVars, guidelines, gateVars, recorderVars>>

\* The final effect after the await: catch branch, setLoading(false)
GuidelinesFail ==
  \E i \in DOMAIN pending :
    /\ pending[i].svc = "GuidelineGeneration"
    /\ Complete(i, "failed")
    /\ speakErrorAndRedirect
    /\ loading' = FALSE
    /\ lastEvent' = "guidelinesFailed"
    /\ UNCHANGED <<step, recordedBlob, transcript, editedTranscript, extractedSymptom,
                   qaVars, guidelines, gateVars, recorderVars>>

\* ---------------------------------------------- the canonical orchestrator

Next ==
  \/ handleOverlayClick
  \/ handleStartRecording
  \/ MicGranted
  \/ MicDenied
  \/ Tick
  \/ stopRecording
  \/ onstop
  \/ TranscriptionSucceeds
  \/ TranscriptionFails
  \/ EditTranscript
  \/ handleProceedToFollowUp
  \/ ExtractionSucceeds
  \/ ExtractionFails
  \/ EditStaticAnswer
  \/ handleNextStaticFollowUp
  \/ GenerationSucceeds
  \/ GenerationFails
  \/ EditDynamicAnswer
  \/ handleNextDynamicFollowUp
  \/ GuidelinesSucceed
  \/ GuidelinesFail
  \/ CloseModal
  \/ UtteranceEnds

Spec == Init /\ [][Next]_vars

TypeOK ==
  /\ step \in {"initial", "recording", "review", "followupLoading", "followup",
               "dynamicFollowupLoading", "dynamicFollowup", "final"}
  /\ loading \in BOOLEAN
  /\ currentStaticIndex \in Nat
  /\ currentDynamicIndex \in Nat

\* ------------------------------------------------------------------------
\* The earlier orchestrator (App.tsx 260-582): no loading steps, the backend
\* calls are awaited inside the click handlers, and speakErrorAndRedirect
\* asks window.confirm before it resets the step.  It renders the same
\* <AudioRecorder autoStart={true}/>; handleOverlayClick, handleStartRecording,
\* handleRecordingComplete and the answer boxes are the same code.
\* ------------------------------------------------------------------------

\* startRecording of an unmounted instance, after `await getUserMedia`
\* resolved: the stream, the MediaRecorder and the interval are created for a
\* component that no longer exists (the cleanup has already run).
OrphanMicGranted ==
  /\ orphanMic > 0
  /\ orphanMic' = orphanMic - 1
  /\ streamsHeld' = streamsHeld + 1
  /\ leakedTimers' = leakedTimers + 1
  /\ lastEvent' = "orphanMicGranted"
  /\ UNCHANGED <<appVars, isRecording, recordingTime, mediaRecorderRef, timerRef,
                 micPending, takeSeq, orphanStop, recordingBlob, speechQueue, pending,
                 history>>

\* startRecording of an unmounted instance, catch branch
OrphanMicDenied ==
  /\ orphanMic > 0
  /\ orphanMic' = orphanMic - 1
  /\ lastEvent' = "orphanMicDenied"
  /\ UNCHANGED <<appVars, isRecording, recordingTime, mediaRecorderRef, timerRef,
                 micPending, streamsHeld, takeSeq, orphanStop, leakedTimers, recordingBlob,
                 speechQueue, pending, history>>

\* mediaRecorder.onstop of an unmounted instance: the Take is still handed over
OrphanOnStop ==
  /\ orphanStop > 0
  /\ orphanStop' = orphanStop - 1
  /\ takeSeq' = takeSeq + 1
  /\ handleRecordingComplete(takeSeq + 1)
  /\ UNCHANGED <<isRecording, recordingTime, mediaRecorderRef, timerRef, micPending,
                 streamsHeld, orphanMic, leakedTimers, recordingBlob>>

\* speakErrorAndRedirect (App.tsx 280-287): cancel, speak, and
\* `if (window.confirm(msg)) setStep('initial')`
Early_speakErrorAndRedirect(confirmed) ==
  /\ speechQueue' = <<"error">>
  /\ step' = IF confirmed THEN "initial" ELSE step
  /\ RecorderOnStep(IF confirmed THEN "initial" ELSE step)

Early_TranscriptionFails ==
  \E i \in DOMAIN pending, confirmed \in BOOLEAN :
    /\ pending[i].svc = "Transcription"
    /\ Complete(i, "failed")
    /\ Early_speakErrorAndRedirect(confirmed)
    /\ loading' = FALSE
    /\ lastEvent' = IF confirmed THEN "reset" ELSE "errorDismissed"
    /\ UNCHANGED <<recordedBlob, transcript, editedTranscript, extractedSymptom,
                   qaVars, guidelines, gateVars, errorMsg>>

\* handleExtractSymptoms up to `await extractSymptoms(editedTranscript)`
Early_handleExtractSymptoms ==
  /\ CanProceed
  /\ IF editedTranscript = <<>>
       THEN /\ lastEvent' = "proceedIgnored"
            /\ UNCHANGED <<loading, pending, history>>
       ELSE /\ Len(history) < MaxHistory
            /\ loading' = TRUE
            /\ Issue(pending, history, "SymptomExtraction", 0, editedTranscript, "", <<>>)
            /\ lastEvent' = "proceed"
  /\ UNCHANGED <<step, recordedBlob, transcript, editedTranscript, extractedSymptom, qaVars,
                 guidelines, gateVars, errorMsg, recorderVars, speechQueue>>

\* handleExtractSymptoms after `await extractSymptoms`: either the static set
\* is loaded (and setLoading(false)), or the function goes on to
\* `await generateFollowupQuestions(editedTranscript, cleanedSymptom)` with the
\* transcript it closed over.
Early_ExtractionSucceeds ==
  \E i \in DOMAIN pending, symptom \in EarlySymptomLabels :
    LET key == cleanedSymptom(symptom)
        own == key \in DOMAIN staticFollowUpQuestionsMapping
        questions == IF own THEN staticFollowUpQuestionsMapping[key]
                     ELSE staticFollowUpQuestions
        slots == IF own THEN Len(staticFollowUpQuestionsMapping[key])
                 ELSE ObjectFunctionLength
        narrate == /\ Len(questions) > 0
                   /\ \/ step # "followup"
                      \/ currentStaticIndex # 0
                      \/ questions # staticFollowUpQuestions
    IN
    /\ pending[i].svc = "SymptomExtraction"
    /\ extractedSymptom' = key
    /\ IF MappingHas(key)
         THEN /\ staticFollowUpQuestions' = questions
              /\ staticFollowUpAnswers' = Blanks(slots)
              /\ currentStaticIndex' = 0
              /\ step' = "followup"
              /\ RecorderOnStep("followup")
              /\ loading' = FALSE
              /\ speechQueue' = IF narrate THEN <<questions[1]>> ELSE speechQueue
              /\ Complete(i, "ok")
         ELSE /\ Issue(Remove(pending, i), Append(history, Outcome(pending[i].svc, "ok")),
                       "ChainedFollowUpGeneration", 0,
                       pending[i].cap, key, <<>>)
              /\ UNCHANGED <<staticFollowUpQuestions, staticFollowUpAnswers,
                             currentStaticIndex, step, recorderVars, loading, speechQueue>>
    /\ lastEvent' = "extracted"
    /\ UNCHANGED <<recordedBlob, transcript, editedTranscript,
                   dynamicFollowUpQuestions, dynamicFollowUpAnswers, currentDynamicIndex,
                   guidelines, gateVars, errorMsg>>

\* handleExtractSymptoms, catch branch (either await threw), setLoading(false)
Early_ExtractionFails ==
  \E i \in DOMAIN pending, confirmed \in BOOLEAN :
    /\ pending[i].svc \in {"SymptomExtraction", "ChainedFollowUpGeneration"}
    /\ Complete(i, "failed")
    /\ Early_speakErrorAndRedirect(confirmed)
    /\ loading' = FALSE
    /\ lastEvent' = IF confirmed THEN "reset" ELSE "errorDismissed"
    /\ UNCHANGED <<recordedBlob, transcript, editedTranscript, extractedSymptom,
                   qaVars, guidelines, gateVars, errorMsg>>

\* handleExtractSymptoms after `await generateFollowupQuestions`: the dynamic
\* set is loaded, setLoading(false); the narration effect speaks question 0.
Early_ChainedGenerationSucceeds ==
  \E i \in DOMAIN pending, questions \in DynamicLists :
    /\ pending[i].svc = "ChainedFollowUpGeneration"
    /\ Complete(i, "ok")
    /\ dynamicFollowUpQuestions' = questions
    /\ dynamicFollowUpAnswers' = Blanks(Len(questions))
    /\ currentDynamicIndex' = 0
    /\ step' = "dynamicFollowup"
    /\ RecorderOnStep("dynamicFollowup")
    /\ loading' = FALSE
    /\ speechQueue' = IF Len(questions) > 0 THEN <<questions[1]>> ELSE speechQueue
    /\ lastEvent' = "generated"
    /\ UNCHANGED <<recordedBlob, transcript, editedTranscript, extractedSymptom,
                   staticFollowUpQuestions, staticFollowUpAnswers, currentStaticIndex,
                   guidelines, gateVars, errorMsg>>

\* handleNextStaticFollowUp (App.tsx 384-411): at the last question the
\* handler itself starts generateFollowupQuestions(editedTranscript,
\* extractedSymptom); the step stays 'followup' while the call is pending.
Early_handleNextStaticFollowUp ==
  /\ CanNextStatic
  /\ LET answer == AnswerAt(staticFollowUpAnswers, currentStaticIndex) IN
     IF IsBlank(answer)
       THEN /\ lastEvent' = "nextStaticRejected"
            /\ UNCHANGED <<currentStaticIndex, loading, speechQueue, pending, history>>
       ELSE IF currentStaticIndex + 1 < Len(staticFollowUpQuestions)
         THEN /\ currentStaticIndex' = currentStaticIndex + 1
              /\ speechQueue' = <<staticFollowUpQuestions[currentStaticIndex + 2]>>
              /\ lastEvent' = "nextStatic"
              /\ UNCHANGED <<loading, pending, history>>
         ELSE /\ Len(pending) < MaxPending
              /\ Len(history) < MaxHistory
              /\ loading' = TRUE
              /\ Issue(pending, history, "FollowUpGeneration", 0, editedTranscript,
                       extractedSymptom, <<>>)
              /\ lastEvent' = "staticDone"
              /\ UNCHANGED <<currentStaticIndex, speechQueue>>
  /\ UNCHANGED <<step, recordedBlob, transcript, editedTranscript, extractedSymptom,
                 staticFollowUpQuestions, staticFollowUpAnswers,
                 dynamicFollowUpQuestions, dynamicFollowUpAnswers, currentDynamicIndex,
                 guidelines, gateVars, errorMsg, recorderVars>>

\* The async block of handleNextStaticFollowUp after its await, try branch:
\* the dynamic set is loaded, `speechSynthesis.speak(questions[0])` is called
\* with no cancel before it, setStep('dynamicFollowup'), setLoading(false);
\* then the narration effect (cancel, speak) runs if the list is not empty.
Early_GenerationSucceeds ==
  \E i \in DOMAIN pending, questions \in DynamicLists :
    /\ pending[i].svc = "FollowUpGeneration"
    /\ Complete(i, "ok")
    /\ dynamicFollowUpQuestions' = questions
    /\ dynamicFollowUpAnswers' = Blanks(Len(questions))
    /\ currentDynamicIndex' = 0
    /\ step' = "dynamicFollowup"
    /\ RecorderOnStep("dynamicFollowup")
    /\ loading' = FALSE
    /\ speechQueue' = IF Len(questions) > 0 THEN <<questions[1]>>
                      ELSE Append(speechQueue, "undefined")
    /\ lastEvent' = "generated"
    /\ UNCHANGED <<recordedBlob, transcript, editedTranscript, extractedSymptom,
                   staticFollowUpQuestions, staticFollowUpAnswers, currentStaticIndex,
                   guidelines, gateVars, errorMsg>>

\* The async block of handleNextStaticFollowUp, catch branch, setLoading(false)
Early_GenerationFails ==
  \E i \in DOMAIN pending, confirmed \in BOOLEAN :
    /\ pending[i].svc = "FollowUpGeneration"
    /\ Complete(i, "failed")
    /\ Early_speakErrorAndRedirect(confirmed)
    /\ loading' = FALSE
    /\ lastEvent' = IF confirmed THEN "reset" ELSE "errorDismissed"
    /\ UNCHANGED <<recordedBlob, transcript, editedTranscript, extractedSymptom,
                   qaVars, guidelines, gateVars, errorMsg>>

\* The final effect (App.tsx 436-463) up to its await: cancel, speak,
\* setLoading(true), generateGuidelines(editedTranscript, ...)
Early_finalEffect ==
  /\ speechQueue' = <<"waitFinal">>
  /\ loading' = TRUE
  /\ Issue(pending, history, "GuidelineGeneration", 0, editedTranscript, extractedSymptom,
           QA(staticFollowUpQuestions, staticFollowUpAnswers)
             \o QA(dynamicFollowUpQuestions, dynamicFollowUpAnswers))

Early_handleNextDynamicFollowUp ==
  /\ CanNextDynamic
  /\ LET answer == AnswerAt(dynamicFollowUpAnswers, currentDynamicIndex) IN
     IF IsBlank(answer)
       THEN /\ lastEvent' = "nextDynamicRejected"
            /\ UNCHANGED <<step, currentDynamicIndex, loading, speechQueue, pending, history>>
       ELSE IF currentDynamicIndex + 1 < Len(dynamicFollowUpQuestions)
         THEN /\ currentDynamicIndex' = currentDynamicIndex + 1
              /\ speechQueue' = <<dynamicFollowUpQuestions[currentDynamicIndex + 2]>>
              /\ lastEvent' = "nextDynamic"
              /\ UNCHANGED <<step, loading, pending, history>>
         ELSE /\ step' = "final"
              /\ Early_finalEffect
              /\ lastEvent' = "dynamicDone"
              /\ UNCHANGED currentDynamicIndex
  /\ UNCHANGED <<recordedBlob, transcript, editedTranscript, extractedSymptom,
                 staticFollowUpQuestions, staticFollowUpAnswers,
                 dynamicFollowUpQuestions, dynamicFollowUpAnswers, currentStaticIndex,
                 guidelines, gateVars, errorMsg, recorderVars>>

\* The final effect after the await, catch branch, setLoading(false)
Early_GuidelinesFail ==
  \E i \in DOMAIN pending, confirmed \in BOOLEAN :
    /\ pending[i].svc = "GuidelineGeneration"
    /\ Complete(i, "failed")
    /\ Early_speakErrorAndRedirect(confirmed)
    /\ loading' = FALSE
    /\ lastEvent' = IF confirmed THEN "reset" ELSE "errorDismissed"
    /\ UNCHANGED <<recordedBlob, transcript, editedTranscript, extractedSymptom,
                   qaVars, guidelines, gateVars, errorMsg>>

NextEarlier ==
  \/ handleOverlayClick
  \/ handleStartRecording
  \/ MicGranted
  \/ MicDenied
  \/ Tick
  \/ stopRecording
  \/ onstop
  \/ OrphanMicGranted
  \/ OrphanMicDenied
  \/ OrphanOnStop
  \/ TranscriptionSucceeds
  \/ Early_TranscriptionFails
  \/ EditTranscript
  \/ Early_handleExtractSymptoms
  \/ Early_ExtractionSucceeds
  \/ Early_ExtractionFails
  \/ Early_ChainedGenerationSucceeds
  \/ EditStaticAnswer
  \/ Early_handleNextStaticFollowUp
  \/ Early_GenerationSucceeds
  \/ Early_GenerationFails
  \/ EditDynamicAnswer
  \/ Early_handleNextDynamicFollowUp
  \/ GuidelinesSucceed
  \/ Early_GuidelinesFail
  \/ UtteranceEnds

SpecEarlier == Init /\ [][NextEarlier]_vars

\* ------------------------------------------------------------------------
\* The canonical orchestrator with a narrator whose calls can throw
\* (App.tsx 585-1101): no narration call is inside a try block that covers
\* it, so a throw ends the handler or the effect at that call.
\* ------------------------------------------------------------------------

\* handleOverlayClick when speakWelcome throws: setWelcomeSpoken(true) and
\* setOverlayVisible(false) are not reached.
Throw_handleOverlayClick ==
  /\ overlayVisible /\ ~welcomeSpoken
  /\ lastEvent' = "overlayClickThrew"
  /\ UNCHANGED <<appVars, recorderVars, speechQueue, pending, history>>

\* mediaRecorder.onstop when the narration in handleRecordingComplete throws:
\* setRecordedBlob(blob) was called; setLoading(true) and transcribeAudio are
\* not reached.
Throw_onstop ==
  /\ mediaRecorderRef = "stopping"
  /\ mediaRecorderRef' = "inactive"
  /\ IF timerRef # "null"
       THEN timerRef' = "cleared" /\ recordingTime' = 0
       ELSE UNCHANGED <<timerRef, recordingTime>>
  /\ takeSeq' = takeSeq + 1
  /\ recordedBlob' = takeSeq + 1
  /\ lastEvent' = "recordingCompleteThrew"
  /\ UNCHANGED <<step, transcript, editedTranscript, extractedSymptom, qaVars,
                 guidelines, loading, gateVars, errorMsg, isRecording, micPending,
                 streamsHeld, orphanMic, orphanStop, leakedTimers, recordingBlob, speechQueue,
                 pending, history>>

\* handleProceedToFollowUp when speak() in the followupLoading effect throws:
\* the step and the loading flag were committed and the narrator cancelled;
\* the effect ends before extractSymptoms is called.
Throw_handleProceedToFollowUp ==
  /\ CanProceed
  /\ step' = "followupLoading"
  /\ loading' = TRUE
  /\ speechQueue' = <<>>
  /\ lastEvent' = "proceedThrew"
  /\ UNCHANGED <<recordedBlob, transcript, editedTranscript, extractedSymptom, qaVars,
                 guidelines, gateVars, errorMsg, recorderVars, pending, history>>

NextNarratorThrows ==
  \/ Next
  \/ Throw_handleOverlayClick
  \/ Throw_onstop
  \/ Throw_handleProceedToFollowUp

SpecNarratorThrows == Init /\ [][NextNarratorThrows]_vars

\* ------------------------------------------------------------------------
\* The canonical orchestrator with responses that are ok at transport level
\* but lack the expected field (App.tsx 635-701): each API function returns
\* `data.<field>`, which is undefined then.
\* ------------------------------------------------------------------------

\* The value undefined held where a text is expected, and where a list is.
UndefinedText == <<"undefined">>
UndefinedList == <<"undefined">>

\* handleRecordingComplete after the await, try branch, with
\* transcribedText undefined; then the review effect.
TranscriptionMalformed ==
  \E i \in DOMAIN pending :
    /\ pending[i].svc = "Transcription"
    /\ Complete(i, "malformed")
    /\ transcript' = UndefinedText
    /\ editedTranscript' = UndefinedText
    /\ step' = "review"
    /\ loading' = FALSE
    /\ speechQueue' = IF step # "review" THEN <<"review">> ELSE speechQueue
    /\ RecorderOnStep("review")
    /\ lastEvent' = "transcribed"
    /\ UNCHANGED <<recordedBlob, extractedSymptom, qaVars, guidelines, gateVars,
                   errorMsg>>

\* The followupLoading effect after the await with symptom undefined:
\* `symptom.split` throws a TypeError inside the try block; catch branch.
ExtractionMalformed ==
  \E i \in DOMAIN pending :
    /\ pending[i].svc = "SymptomExtraction"
    /\ Complete(i, "malformed")
    /\ speakErrorAndRedirect
    /\ loading' = FALSE
    /\ lastEvent' = "extractionFailed"
    /\ UNCHANGED <<step, recordedBlob, transcript, editedTranscript, extractedSymptom,
                   qaVars, guidelines, gateVars, recorderVars>>

\* The dynamicFollowupLoading effect after the await with questions
\* undefined: setDynamicFollowUpQuestions(undefined), then `questions.length`
\* throws a TypeError inside the try block; catch branch.
GenerationMalformed ==
  \E i \in DOMAIN pending :
    /\ pending[i].svc = "FollowUpGeneration"
    /\ Complete(i, "malformed")
    /\ dynamicFollowUpQuestions' = UndefinedList
    /\ speakErrorAndRedirect
    /\ lastEvent' = "generationFailed"
    /\ UNCHANGED <<step, recordedBlob, transcript, editedTranscript, extractedSymptom,
                   staticFollowUpQuestions, staticFollowUpAnswers, dynamicFollowUpAnswers,
                   currentStaticIndex, currentDynamicIndex, guidelines, loading,
                   gateVars, recorderVars>>

\* The final effect after the await, try branch, with result.guidelines
\* undefined; setLoading(false).
GuidelinesMalformed ==
  \E i \in DOMAIN pending :
    /\ pending[i].svc = "GuidelineGeneration"
    /\ Complete(i, "malformed")
    /\ guidelines' = "undefined"
    /\ loading' = FALSE
    /\ lastEvent' = "planStored"
    /\ UNCHANGED <<step, recordedBlob, transcript, editedTranscript, extractedSymptom,
                   qaVars, gateVars, errorMsg, recorderVars, speechQueue>>

NextMalformed ==
  \/ Next
  \/ TranscriptionMalformed
  \/ ExtractionMalformed
  \/ GenerationMalformed
  \/ GuidelinesMalformed

SpecMalformed == Init /\ [][NextMalformed]_vars

\* ------------------------------------------------------------------------
\* The single-question-set orchestrator (unnamed/part_001) with the
\* manual-start recorder (AudioRecorder.tsx 173-224).  It has no overlay,
\* no narrator, no timer and no error Modal (it uses alert), and it keeps
\* one question set in staticFollowUpQuestions / staticFollowUpAnswers /
\* currentStaticIndex (followUpQuestions / followUpAnswers /
\* currentQuestionIndex in that file).
\* ------------------------------------------------------------------------

\* followUpQuestionsMapping, in the order `for (const key in ...)` visits it.
followUpQuestionsMapping ==
  << [key |-> <<"f", "e", "v", "e", "r">>,
      questions |-> <<"fever1", "fever2", "fever3">>],
     [key |-> <<"c", "o", "u", "g", "h", "i", "n", "g">>,
      questions |-> <<"coughing1", "coughing2", "coughing3">>],
     [key |-> <<"h", "e", "a", "d", "a", "c", "h", "e">>,
      questions |-> <<"headache1", "headache2", "headache3">>],
     [key |-> <<"b", "a", "c", "k", " ", "p", "a", "i", "n">>,
      questions |-> <<"backpain1", "backpain2", "backpain3">>],
     [key |-> <<"t", "o", "o", "t", "h", "a", "c", "h", "e">>,
      questions |-> <<"toothache1", "toothache2", "toothache3">>] >>

\* String.prototype.includes
includes(s, key) ==
  \E at \in 0..(Len(s) - Len(key)) : \A i \in 1..Len(key) : s[at + i] = key[i]

\* The loop of handleExtractSymptoms: the questions of the first key the
\* lowercased symptom includes, [] if there is none.
Manual_lookup(symptomLower) ==
  IF \E m \in DOMAIN followUpQuestionsMapping :
       includes(symptomLower, followUpQuestionsMapping[m].key)
    THEN LET m == CHOOSE m \in DOMAIN followUpQuestionsMapping :
                    /\ includes(symptomLower, followUpQuestionsMapping[m].key)
                    /\ \A n \in 1..(m - 1) :
                         ~includes(symptomLower, followUpQuestionsMapping[n].key)
         IN followUpQuestionsMapping[m].questions
    ELSE <<>>

\* Labels explored with this orchestrator.
ManualSymptomLabels == {L_Fever, L_BackPain, L_Unrecognized}

\* State this variant does not have.
manualUnused ==
  <<dynamicFollowUpQuestions, dynamicFollowUpAnswers, currentDynamicIndex,
    overlayVisible, welcomeSpoken, errorMsg, recordingTime, timerRef, leakedTimers, recordingBlob,
    speechQueue>>

\* useState initial values (part_001 86-95, AudioRecorder.tsx 180-182)
InitManual ==
  /\ step = "initial"
  /\ recordedBlob = 0
  /\ transcript = <<>>
  /\ editedTranscript = <<>>
  /\ extractedSymptom = ""
  /\ staticFollowUpQuestions = <<>>
  /\ staticFollowUpAnswers = <<>>
  /\ dynamicFollowUpQuestions = <<>>
  /\ dynamicFollowUpAnswers = <<>>
  /\ currentStaticIndex = 0
  /\ currentDynamicIndex = 0
  /\ guidelines = ""
  /\ loading = FALSE
  /\ overlayVisible = FALSE
  /\ welcomeSpoken = FALSE
  /\ errorMsg = ""
  /\ isRecording = FALSE
  /\ recordingTime = 0
  /\ mediaRecorderRef = "null"
  /\ timerRef = "null"
  /\ micPending = FALSE
  /\ streamsHeld = 0
  /\ takeSeq = 0
  /\ orphanMic = 0
  /\ orphanStop = 0
  /\ leakedTimers = 0
  /\ recordingBlob = 0
  /\ speechQueue = <<>>
  /\ pending = <<>>
  /\ history = <<>>
  /\ lastEvent = "none"

\* getUserMedia calls awaited by startRecording: micPending is one call in
\* flight, orphanMic counts the further calls in flight.
StartsInFlight == (IF micPending THEN 1 ELSE 0) + orphanMic

\* One of the awaited getUserMedia calls settles.
Manual_StartSettles ==
  IF orphanMic > 0
    THEN orphanMic' = orphanMic - 1 /\ micPending' = micPending
    ELSE micPending' = FALSE /\ orphanMic' = orphanMic

\* The initial page's button: onClick={() => setStep('recording')}; the
\* recorder is mounted and waits for its Start button.
Manual_StartSession ==
  /\ step = "initial"
  /\ step' = "recording"
  /\ lastEvent' = "startSession"
  /\ UNCHANGED <<recordedBlob, transcript, editedTranscript, extractedSymptom,
                 staticFollowUpQuestions, staticFollowUpAnswers, currentStaticIndex,
                 guidelines, loading, isRecording, mediaRecorderRef, micPending,
                 streamsHeld, takeSeq, orphanMic, orphanStop, pending, history,
                 manualUnused>>

\* startRecording up to its `await getUserMedia`.  The Start button is
\* rendered whenever isRecording is false, also while a call is awaited.
Manual_startRecording ==
  /\ step = "recording" /\ ~isRecording
  /\ StartsInFlight < MaxPending
  /\ streamsHeld + StartsInFlight < MaxTakes
  /\ IF micPending
       THEN orphanMic' = orphanMic + 1 /\ micPending' = micPending
       ELSE micPending' = TRUE /\ orphanMic' = orphanMic
  /\ lastEvent' = "startRecording"
  /\ UNCHANGED <<step, recordedBlob, transcript, editedTranscript, extractedSymptom,
                 staticFollowUpQuestions, staticFollowUpAnswers, currentStaticIndex,
                 guidelines, loading, isRecording, mediaRecorderRef,
                 streamsHeld, takeSeq, orphanStop, pending, history, manualUnused>>

\* startRecording after the await resolved: a new MediaRecorder on the new
\* stream replaces whatever the ref held (a replaced recorder that was
\* stopping still delivers its stop event); start(); setIsRecording(true).
\* After the unmount only the stream and the recorder are created.
Manual_MicGranted ==
  /\ StartsInFlight > 0
  /\ Manual_StartSettles
  /\ streamsHeld' = streamsHeld + 1
  /\ IF step = "recording"
       THEN /\ mediaRecorderRef' = "recording"
            /\ isRecording' = TRUE
            /\ orphanStop' = orphanStop + (IF mediaRecorderRef = "stopping" THEN 1 ELSE 0)
       ELSE UNCHANGED <<mediaRecorderRef, isRecording, orphanStop>>
  /\ lastEvent' = "micGranted"
  /\ UNCHANGED <<step, recordedBlob, transcript, editedTranscript, extractedSymptom,
                 staticFollowUpQuestions, staticFollowUpAnswers, currentStaticIndex,
                 guidelines, loading, takeSeq, pending, history, manualUnused>>

\* startRecording, catch branch: alert(...)
Manual_MicDenied ==
  /\ StartsInFlight > 0
  /\ Manual_StartSettles
  /\ lastEvent' = "micDenied"
  /\ UNCHANGED <<step, recordedBlob, transcript, editedTranscript, extractedSymptom,
                 staticFollowUpQuestions, staticFollowUpAnswers, currentStaticIndex,
                 guidelines, loading, isRecording, mediaRecorderRef,
                 streamsHeld, takeSeq, orphanStop, pending, history, manualUnused>>

\* stopRecording: mediaRecorderRef.current.stop(); setIsRecording(false).
\* The stream's tracks are not stopped.
Manual_stopRecording ==
  /\ step = "recording" /\ isRecording
  /\ mediaRecorderRef # "null"
  /\ mediaRecorderRef' = "stopping"
  /\ isRecording' = FALSE
  /\ lastEvent' = "stopRecording"
  /\ UNCHANGED <<step, recordedBlob, transcript, editedTranscript, extractedSymptom,
                 staticFollowUpQuestions, staticFollowUpAnswers, currentStaticIndex,
                 guidelines, loading, micPending, streamsHeld, takeSeq, orphanMic,
                 orphanStop, pending, history, manualUnused>>

\* handleRecordingComplete (part_001 98-111) up to its await
Manual_handleRecordingComplete(blob) ==
  /\ recordedBlob' = blob
  /\ loading' = TRUE
  /\ Issue(pending, history, "Transcription", blob, <<>>, "", <<>>)
  /\ lastEvent' = "recordingComplete"
  /\ UNCHANGED <<step, transcript, editedTranscript, extractedSymptom,
                 staticFollowUpQuestions, staticFollowUpAnswers, currentStaticIndex,
                 guidelines, manualUnused>>

\* mediaRecorder.onstop of the recorder the ref holds
Manual_onstop ==
  /\ mediaRecorderRef = "stopping"
  /\ mediaRecorderRef' = "inactive"
  /\ takeSeq' = takeSeq + 1
  /\ Manual_handleRecordingComplete(takeSeq + 1)
  /\ UNCHANGED <<isRecording, micPending, streamsHeld, orphanMic, orphanStop>>

\* mediaRecorder.onstop of a recorder the ref no longer holds (replaced,
\* or its component unmounted)
Manual_OrphanOnstop ==
  /\ orphanStop > 0
  /\ orphanStop' = orphanStop - 1
  /\ takeSeq' = takeSeq + 1
  /\ Manual_handleRecordingComplete(takeSeq + 1)
  /\ UNCHANGED <<isRecording, mediaRecorderRef, micPending, streamsHeld, orphanMic>>

\* handleRecordingComplete after the await, try branch, then
\* setLoading(false).  Leaving 'recording' unmounts the recorder, which has
\* no cleanup: streams stay held and awaited calls stay in flight.
Manual_TranscriptionSucceeds ==
  \E i \in DOMAIN pending, text \in TranscriptTexts :
    /\ pending[i].svc = "Transcription"
    /\ Complete(i, "ok")
    /\ transcript' = text
    /\ editedTranscript' = text
    /\ step' = "review"
    /\ loading' = FALSE
    /\ IF step = "recording"
         THEN /\ isRecording' = FALSE
              /\ mediaRecorderRef' = "null"
              /\ orphanStop' = orphanStop + (IF mediaRecorderRef = "stopping" THEN 1 ELSE 0)
         ELSE UNCHANGED <<isRecording, mediaRecorderRef, orphanStop>>
    /\ lastEvent' = "transcribed"
    /\ UNCHANGED <<recordedBlob, extractedSymptom, staticFollowUpQuestions,
                   staticFollowUpAnswers, currentStaticIndex, guidelines,
                   micPending, streamsHeld, takeSeq, orphanMic, manualUnused>>

\* handleRecordingComplete after the await, catch branch: alert(...)
Manual_TranscriptionFails ==
  \E i \in DOMAIN pending :
    /\ pending[i].svc = "Transcription"
    /\ Complete(i, "failed")
    /\ loading' = FALSE
    /\ lastEvent' = "transcriptionFailed"
    /\ UNCHANGED <<step, recordedBlob, transcript, editedTranscript, extractedSymptom,
                   staticFollowUpQuestions, staticFollowUpAnswers, currentStaticIndex,
                   guidelines, isRecording, mediaRecorderRef, micPending, streamsHeld,
                   takeSeq, orphanMic, orphanStop, manualUnused>>

\* the review textarea's onChange
Manual_EditTranscript ==
  /\ step = "review"
  /\ \E text \in TranscriptEdits \ {editedTranscript} : editedTranscript' = text
  /\ lastEvent' = "editTranscript"
  /\ UNCHANGED <<step, recordedBlob, transcript, extractedSymptom,
                 staticFollowUpQuestions, staticFollowUpAnswers, currentStaticIndex,
                 guidelines, loading, isRecording, mediaRecorderRef, micPending,
                 streamsHeld, takeSeq, orphanMic, orphanStop, pending, history,
                 manualUnused>>

\* handleExtractSymptoms (part_001 114-138) up to its await; the button is
\* disabled while loading.
Manual_handleExtractSymptoms ==
  /\ step = "review" /\ ~loading
  /\ editedTranscript # <<>>
  /\ Len(pending) < MaxPending
  /\ Len(history) + 2 <= MaxHistory
  /\ loading' = TRUE
  /\ Issue(pending, history, "SymptomExtraction", recordedBlob, editedTranscript, "", <<>>)
  /\ lastEvent' = "proceed"
  /\ UNCHANGED <<step, recordedBlob, transcript, editedTranscript, extractedSymptom,
                 staticFollowUpQuestions, staticFollowUpAnswers, currentStaticIndex,
                 guidelines, isRecording, mediaRecorderRef, micPending, streamsHeld,
                 takeSeq, orphanMic, orphanStop, manualUnused>>

\* handleExtractSymptoms after the await, try branch, then setLoading(false)
Manual_ExtractionSucceeds ==
  \E i \in DOMAIN pending, symptom \in ManualSymptomLabels :
    /\ pending[i].svc = "SymptomExtraction"
    /\ Complete(i, "ok")
    /\ extractedSymptom' = Join(symptom)
    /\ staticFollowUpQuestions' = Manual_lookup(toLowerCase(symptom))
    /\ currentStaticIndex' = 0
    /\ staticFollowUpAnswers' = <<>>
    /\ step' = "followup"
    /\ loading' = FALSE
    /\ lastEvent' = "extracted"
    /\ UNCHANGED <<recordedBlob, transcript, editedTranscript, guidelines,
                   isRecording, mediaRecorderRef, micPending, streamsHeld,
                   takeSeq, orphanMic, orphanStop, manualUnused>>

\* handleExtractSymptoms after the await, catch branch: alert(...)
Manual_ExtractionFails ==
  \E i \in DOMAIN pending :
    /\ pending[i].svc = "SymptomExtraction"
    /\ Complete(i, "failed")
    /\ loading' = FALSE
    /\ lastEvent' = "extractionFailed"
    /\ UNCHANGED <<step, recordedBlob, transcript, editedTranscript, extractedSymptom,
                   staticFollowUpQuestions, staticFollowUpAnswers, currentStaticIndex,
                   guidelines, isRecording, mediaRecorderRef, micPending, streamsHeld,
                   takeSeq, orphanMic, orphanStop, manualUnused>>

\* The follow-up box is rendered only when there is a question (part_001 230).
Manual_FollowUpShown == step = "followup" /\ Len(staticFollowUpQuestions) > 0

\* the follow-up textarea's onChange
Manual_EditAnswer ==
  /\ Manual_FollowUpShown
  /\ \E text \in AnswerTexts \ {AnswerAt(staticFollowUpAnswers, currentStaticIndex)} :
       staticFollowUpAnswers' = SetAt(staticFollowUpAnswers, currentStaticIndex, text)
  /\ lastEvent' = "editAnswer"
  /\ UNCHANGED <<step, recordedBlob, transcript, editedTranscript, extractedSymptom,
                 staticFollowUpQuestions, currentStaticIndex, guidelines, loading,
                 isRecording, mediaRecorderRef, micPending, streamsHeld, takeSeq,
                 orphanMic, orphanStop, pending, history, manualUnused>>

\* handleNextFollowUp (part_001 141-152); on the last question the step
\* becomes 'final' and the final effect (155-174) issues the guideline call.
Manual_handleNextFollowUp ==
  /\ Manual_FollowUpShown
  /\ IF IsBlank(AnswerAt(staticFollowUpAnswers, currentStaticIndex))
       THEN /\ lastEvent' = "nextRejected"
            /\ UNCHANGED <<step, currentStaticIndex, loading, pending, history>>
       ELSE IF currentStaticIndex + 1 < Len(staticFollowUpQuestions)
         THEN /\ currentStaticIndex' = currentStaticIndex + 1
              /\ lastEvent' = "nextQuestion"
              /\ UNCHANGED <<step, loading, pending, history>>
         ELSE /\ Len(pending) < MaxPending
              /\ Len(history) + 2 <= MaxHistory
              /\ step' = "final"
              /\ loading' = TRUE
              /\ Issue(pending, history, "GuidelineGeneration", recordedBlob,
                       editedTranscript, extractedSymptom,
                       QA(staticFollowUpQuestions, staticFollowUpAnswers))
              /\ lastEvent' = "lastAnswer"
              /\ UNCHANGED currentStaticIndex
  /\ UNCHANGED <<recordedBlob, transcript, editedTranscript, extractedSymptom,
                 staticFollowUpQuestions, staticFollowUpAnswers, guidelines,
                 isRecording, mediaRecorderRef, micPending, streamsHeld, takeSeq,
                 orphanMic, orphanStop, manualUnused>>

\* the final effect after the await, try branch, then setLoading(false)
Manual_GuidelinesSucceed ==
  \E i \in DOMAIN pending :
    /\ pending[i].svc = "GuidelineGeneration"
    /\ Complete(i, "ok")
    /\ guidelines' = "plan"
    /\ loading' = FALSE
    /\ lastEvent' = "planStored"
    /\ UNCHANGED <<step, recordedBlob, transcript, editedTranscript, extractedSymptom,
                   staticFollowUpQuestions, staticFollowUpAnswers, currentStaticIndex,
                   isRecording, mediaRecorderRef, micPending, streamsHeld, takeSeq,
                   orphanMic, orphanStop, manualUnused>>

\* the final effect after the await, catch branch: alert(...)
Manual_GuidelinesFail ==
  \E i \in DOMAIN pending :
    /\ pending[i].svc = "GuidelineGeneration"
    /\ Complete(i, "failed")
    /\ loading' = FALSE
    /\ lastEvent' = "guidelinesFailed"
    /\ UNCHANGED <<step, recordedBlob, transcript, editedTranscript, extractedSymptom,
                   staticFollowUpQuestions, staticFollowUpAnswers, currentStaticIndex,
                   guidelines, isRecording, mediaRecorderRef, micPending, streamsHeld,
                   takeSeq, orphanMic, orphanStop, manualUnused>>

NextManual ==
  \/ Manual_StartSession
  \/ Manual_startRecording
  \/ Manual_MicGranted
  \/ Manual_MicDenied
  \/ Manual_stopRecording
  \/ Manual_onstop
  \/ Manual_OrphanOnstop
  \/ Manual_TranscriptionSucceeds
  \/ Manual_TranscriptionFails
  \/ Manual_EditTranscript
  \/ Manual_handleExtractSymptoms
  \/ Manual_ExtractionSucceeds
  \/ Manual_ExtractionFails
  \/ Manual_EditAnswer
  \/ Manual_handleNextFollowUp
  \/ Manual_GuidelinesSucceed
  \/ Manual_GuidelinesFail

SpecManual == InitManual /\ [][NextManual]_vars

\* ------------------------------------------------------------------------
\* The canonical orchestrator on the success path: microphone access is
\* granted, every backend call returns, and the patient keeps acting.
\* ------------------------------------------------------------------------

NextHappy ==
  \/ handleOverlayClick
  \/ handleStartRecording
  \/ MicGranted
  \/ Tick
  \/ stopRecording
  \/ onstop
  \/ TranscriptionSucceeds
  \/ EditTranscript
  \/ handleProceedToFollowUp
  \/ ExtractionSucceeds
  \/ EditStaticAnswer
  \/ handleNextStaticFollowUp
  \/ GenerationSucceeds
  \/ EditDynamicAnswer
  \/ handleNextDynamicFollowUp
  \/ GuidelinesSucceed
  \/ UtteranceEnds

\* The patient types an answer with a visible character.
GiveStaticAnswer ==
  EditStaticAnswer /\ ~IsBlank(AnswerAt(staticFollowUpAnswers', currentStaticIndex))
GiveDynamicAnswer ==
  EditDynamicAnswer /\ ~IsBlank(AnswerAt(dynamicFollowUpAnswers', currentDynamicIndex))

\* The patient presses Next on an answer that is accepted.
AcceptedNextStatic == handleNextStaticFollowUp /\ lastEvent' # "nextStaticRejected"
AcceptedNextDynamic == handleNextDynamicFollowUp /\ lastEvent' # "nextDynamicRejected"

\* Browser events and service completions are delivered, and the patient
\* does not stop: a control that stays usable is used, and an answer box is
\* eventually left with an answer and Next pressed on it.
Fairness ==
  /\ WF_vars(handleOverlayClick)
  /\ WF_vars(handleStartRecording)
  /\ WF_vars(MicGranted)
  /\ WF_vars(stopRecording)
  /\ WF_vars(onstop)
  /\ WF_vars(TranscriptionSucceeds)
  /\ WF_vars(handleProceedToFollowUp)
  /\ WF_vars(ExtractionSucceeds)
  /\ WF_vars(GiveStaticAnswer)
  /\ SF_vars(AcceptedNextStatic)
  /\ WF_vars(GenerationSucceeds)
  /\ WF_vars(GiveDynamicAnswer)
  /\ SF_vars(AcceptedNextDynamic)
  /\ WF_vars(GuidelinesSucceed)

SpecHappy == Init /\ [][NextHappy]_vars /\ Fairness

\* ------------------------------------------------------------------------
\* The recorder with playback and re-record (unnamed/part_000) under the
\* single-question-set orchestrator (unnamed/part_001), up to the review
\* step.  recordingBlob and audioUrl are set and cleared together, so
\* recordingBlob # 0 stands for both.
\* ------------------------------------------------------------------------

\* State of this pair that the recorder's actions leave alone.
playbackAppVars ==
  <<step, recordedBlob, transcript, editedTranscript, extractedSymptom, qaVars,
    guidelines, loading, gateVars, errorMsg, speechQueue>>

\* startRecording (part_000 35-37) up to its `await getUserMedia`.  The
\* Start button is rendered while !isRecording && !audioUrl, also while a
\* call is awaited.
Playback_startRecording ==
  /\ step = "recording" /\ ~isRecording /\ recordingBlob = 0
  /\ StartsInFlight < MaxPending
  /\ streamsHeld + StartsInFlight + takeSeq + orphanStop
       + (IF mediaRecorderRef = "stopping" THEN 1 ELSE 0) < MaxTakes
  /\ IF micPending
       THEN orphanMic' = orphanMic + 1 /\ micPending' = micPending
       ELSE micPending' = TRUE /\ orphanMic' = orphanMic
  /\ lastEvent' = "startRecording"
  /\ UNCHANGED <<playbackAppVars, isRecording, recordingTime, mediaRecorderRef, timerRef,
                 recordingBlob, streamsHeld, takeSeq, orphanStop, leakedTimers,
                 pending, history>>

\* startRecording after the await resolved (38-61): a new MediaRecorder
\* replaces whatever the ref held, setRecordingBlob(null), setAudioUrl(null),
\* start(), setIsRecording(true), setRecordingTime(0), and a new interval
\* replaces the handle of a live one, which keeps running.  After the
\* unmount the stream, the recorder and the interval are still created.
Playback_MicGranted ==
  /\ StartsInFlight > 0
  /\ Manual_StartSettles
  /\ streamsHeld' = streamsHeld + 1
  /\ IF step = "recording"
       THEN /\ mediaRecorderRef' = "recording"
            /\ recordingBlob' = 0
            /\ isRecording' = TRUE
            /\ recordingTime' = 0
            /\ timerRef' = "live"
            /\ orphanStop' = orphanStop + (IF mediaRecorderRef = "stopping" THEN 1 ELSE 0)
            /\ leakedTimers' = leakedTimers + (IF timerRef = "live" THEN 1 ELSE 0)
       ELSE /\ leakedTimers' = leakedTimers + 1
            /\ UNCHANGED <<mediaRecorderRef, recordingBlob, isRecording, recordingTime,
                           timerRef, orphanStop>>
  /\ lastEvent' = "micGranted"
  /\ UNCHANGED <<playbackAppVars, takeSeq, pending, history>>

\* startRecording, catch branch (62-64): console.error only
Playback_MicDenied ==
  /\ StartsInFlight > 0
  /\ Manual_StartSettles
  /\ lastEvent' = "micDenied"
  /\ UNCHANGED <<playbackAppVars, isRecording, recordingTime, mediaRecorderRef, timerRef,
                 recordingBlob, streamsHeld, takeSeq, orphanStop, leakedTimers,
                 pending, history>>

\* the setInterval callback (59-61)
Playback_Tick ==
  /\ step = "recording" /\ timerRef = "live"
  /\ recordingTime < MaxTicks
  /\ recordingTime' = recordingTime + 1
  /\ UNCHANGED <<playbackAppVars, isRecording, mediaRecorderRef, timerRef, micPending,
                 recordingBlob, streamsHeld, takeSeq, orphanMic, orphanStop, leakedTimers,
                 pending, history, lastEvent>>

\* stopRecording (67-76): stop(), the stream's tracks are stopped,
\* setIsRecording(false), clearInterval
Playback_stopRecording ==
  /\ step = "recording" /\ isRecording
  /\ mediaRecorderRef # "null"
  /\ mediaRecorderRef' = "stopping"
  /\ streamsHeld' = streamsHeld - 1
  /\ isRecording' = FALSE
  /\ timerRef' = IF timerRef = "live" THEN "cleared" ELSE timerRef
  /\ lastEvent' = "stopRecording"
  /\ UNCHANGED <<playbackAppVars, recordingTime, micPending, recordingBlob, takeSeq,
                 orphanMic, orphanStop, leakedTimers, pending, history>>

\* mediaRecorder.onstop (47-53) of the recorder the ref holds: the Take is
\* kept for playback; onRecordingComplete is not called.
Playback_onstop ==
  /\ mediaRecorderRef = "stopping"
  /\ mediaRecorderRef' = "inactive"
  /\ takeSeq' = takeSeq + 1
  /\ recordingBlob' = takeSeq + 1
  /\ lastEvent' = "takeKept"
  /\ UNCHANGED <<playbackAppVars, isRecording, recordingTime, timerRef, micPending,
                 streamsHeld, orphanMic, orphanStop, leakedTimers, pending, history>>

\* mediaRecorder.onstop of a recorder the ref no longer holds (replaced by a
\* later start, or its component unmounted)
Playback_OrphanOnstop ==
  /\ orphanStop > 0
  /\ orphanStop' = orphanStop - 1
  /\ takeSeq' = takeSeq + 1
  /\ recordingBlob' = IF step = "recording" THEN takeSeq + 1 ELSE recordingBlob
  /\ lastEvent' = "takeKept"
  /\ UNCHANGED <<playbackAppVars, isRecording, recordingTime, mediaRecorderRef, timerRef,
                 micPending, streamsHeld, orphanMic, leakedTimers, pending, history>>

\* handleRerecord (95-99): setRecordingBlob(null); setAudioUrl(null)
Playback_handleRerecord ==
  /\ step = "recording" /\ recordingBlob # 0
  /\ recordingBlob' = 0
  /\ lastEvent' = "rerecord"
  /\ UNCHANGED <<playbackAppVars, isRecording, recordingTime, mediaRecorderRef, timerRef,
                 micPending, streamsHeld, takeSeq, orphanMic, orphanStop, leakedTimers,
                 pending, history>>

\* handleNext (89-93): `if (recordingBlob) onRecordingComplete(recordingBlob)`,
\* which is handleRecordingComplete of the orchestrator up to its await.  The
\* Next button (142-149) is rendered while audioUrl is set.
Playback_handleNext ==
  /\ step = "recording" /\ recordingBlob # 0
  /\ Len(pending) < MaxPending
  /\ Len(history) + 2 <= MaxHistory
  /\ Manual_handleRecordingComplete(recordingBlob)
  /\ UNCHANGED <<isRecording, mediaRecorderRef, micPending, streamsHeld, takeSeq,
                 orphanMic, orphanStop>>

\* handleRecordingComplete (part_001 98-111) after the await, try branch,
\* then setLoading(false).  Leaving 'recording' unmounts the recorder: its
\* state is gone and the cleanup (part_000 24-33) clears the interval.
Playback_TranscriptionSucceeds ==
  \E i \in DOMAIN pending, text \in TranscriptTexts :
    /\ pending[i].svc = "Transcription"
    /\ Complete(i, "ok")
    /\ transcript' = text
    /\ editedTranscript' = text
    /\ step' = "review"
    /\ loading' = FALSE
    /\ IF step = "recording"
         THEN /\ isRecording' = FALSE
              /\ recordingTime' = 0
              /\ mediaRecorderRef' = "null"
              /\ timerRef' = IF timerRef = "live" THEN "cleared" ELSE timerRef
              /\ recordingBlob' = 0
              /\ orphanStop' = orphanStop + (IF mediaRecorderRef = "stopping" THEN 1 ELSE 0)
         ELSE UNCHANGED <<isRecording, recordingTime, mediaRecorderRef, timerRef,
                          recordingBlob, orphanStop>>
    /\ lastEvent' = "transcribed"
    /\ UNCHANGED <<recordedBlob, extractedSymptom, qaVars, guidelines, gateVars, errorMsg,
                   speechQueue, micPending, streamsHeld, takeSeq, orphanMic, leakedTimers>>

NextPlayback ==
  \/ Manual_StartSession
  \/ Playback_startRecording
  \/ Playback_MicGranted
  \/ Playback_MicDenied
  \/ Playback_Tick
  \/ Playback_stopRecording
  \/ Playback_onstop
  \/ Playback_OrphanOnstop
  \/ Playback_handleRerecord
  \/ Playback_handleNext
  \/ Playback_TranscriptionSucceeds
  \/ Manual_TranscriptionFails

SpecPlayback == InitManual /\ [][NextPlayback]_vars

\* ------------------------------------------------------------------------
\* Properties
\* ------------------------------------------------------------------------

Last(seq) == seq[Len(seq)]

\* A text with a character that is not white space.
HasVisibleChar(s) == \E i \in DOMAIN s : s[i] \notin {" ", "\n"}

AllAnswered(questions, answers) ==
  \A j \in DOMAIN questions : j \in DOMAIN answers /\ HasVisibleChar(answers[j])

\* The keys the question table declares.
DeclaredKeys == {"fever", "coughing", "headache", "backpain", "toothache"}

\* This step issued a request to svc.
Requested(svc) ==
  /\ Len(history') > Len(history)
  /\ Last(history').ev = "request"
  /\ Last(history').svc = svc

\* This step is the failure of a backend call.
CallFailed ==
  /\ Len(history') > Len(history)
  /\ \E k \in (Len(history) + 1)..Len(history') : history'[k].ev = "failed"

Succeeded(svc) == \E k \in DOMAIN history : history[k].svc = svc /\ history[k].ev = "ok"

\* C1: in followup and dynamicFollowup the index is k only if the answers
\* 0..k-1 hold a visible character, and the step is left (to
\* dynamicFollowupLoading, resp. final) only if every answer of the set does.
C1_NextNeverPassesBlank ==
  [][ /\ step' = "followup" =>
           \A j \in 1..currentStaticIndex' :
             j \in DOMAIN staticFollowUpAnswers' /\ HasVisibleChar(staticFollowUpAnswers'[j])
      /\ step' = "dynamicFollowup" =>
           \A j \in 1..currentDynamicIndex' :
             j \in DOMAIN dynamicFollowUpAnswers' /\ HasVisibleChar(dynamicFollowUpAnswers'[j])
      /\ (step = "followup" /\ step' # "followup") =>
           /\ step' = "dynamicFollowupLoading"
           /\ AllAnswered(staticFollowUpQuestions, staticFollowUpAnswers)
      /\ (step = "dynamicFollowup" /\ step' # "dynamicFollowup") =>
           /\ step' = "final"
           /\ AllAnswered(dynamicFollowUpQuestions, dynamicFollowUpAnswers)
    ]_vars

\* Both question sets were walked through to the end.
C1_Witness ==
  /\ step = "final"
  /\ Len(staticFollowUpQuestions) = 3 /\ currentStaticIndex = 2
  /\ Len(dynamicFollowUpQuestions) >= 2
  /\ currentDynamicIndex = Len(dynamicFollowUpQuestions) - 1

\* C2: FollowUpGeneration is requested only from followup with a static set
\* whose questions are all answered, or right after a SymptomExtraction whose
\* key is in no table entry; and final is entered only after a
\* FollowUpGeneration call has succeeded.
C2_DynamicRequestedOnlyAfterStatic ==
  [][ /\ Requested("FollowUpGeneration") =>
           \/ /\ step = "followup"
              /\ staticFollowUpQuestions # <<>>
              /\ AllAnswered(staticFollowUpQuestions, staticFollowUpAnswers)
           \/ /\ step = "followupLoading"
              /\ extractedSymptom' \notin DeclaredKeys
              /\ staticFollowUpQuestions' = <<>>
              /\ history'[Len(history') - 1].svc = "SymptomExtraction"
              /\ history'[Len(history') - 1].ev = "ok"
      /\ (step # "final" /\ step' = "final") => Succeeded("FollowUpGeneration")
    ]_vars

\* The dynamic set was requested on leaving a fully answered static set.
C2_Witness ==
  /\ step = "dynamicFollowupLoading"
  /\ lastEvent = "staticDone"
  /\ Last(history).svc = "FollowUpGeneration"

\* C3 (as claimed): when a backend call fails, the step becomes initial.
C3_FailureResetsToInitial ==
  [][ CallFailed => step' = "initial" ]_vars

\* C4 (as claimed): after a reset to initial that follows a failure, the Take,
\* the Transcript, the SymptomKey, both QuestionSets, the answers and the
\* plan are empty.
C4_ResetDiscardsSession ==
  (step = "initial" /\ lastEvent = "reset") =>
    /\ recordedBlob = 0
    /\ transcript = <<>> /\ editedTranscript = <<>>
    /\ extractedSymptom = ""
    /\ staticFollowUpQuestions = <<>> /\ staticFollowUpAnswers = <<>>
    /\ dynamicFollowUpQuestions = <<>> /\ dynamicFollowUpAnswers = <<>>
    /\ guidelines = ""

\* C5 (as claimed): after microphone access was refused the recorder is idle,
\* no Take was produced and the step is initial.
C5_MicDeniedLeavesInitial ==
  lastEvent = "micDenied" =>
    /\ ~isRecording /\ mediaRecorderRef = "null"
    /\ takeSeq = 0 /\ recordedBlob = 0
    /\ step = "initial"

\* C6: at most one backend call is pending, and while one is pending no
\* control that starts a call or a transition can be used and the recorder
\* has nothing left to deliver.
C6_OneCallAtATime ==
  /\ Len(pending) <= 1
  /\ pending # <<>> =>
       /\ ~CanStartRecording /\ ~CanStopRecording /\ ~CanProceed
       /\ ~CanNextStatic /\ ~CanNextDynamic
       /\ ~micPending /\ mediaRecorderRef # "stopping"

\* GuidelineGeneration is pending.
C6_Witness ==
  /\ Len(pending) = 1
  /\ pending[1].svc = "GuidelineGeneration"
  /\ step = "final"

\* C7 (as claimed): the narrator holds at most one utterance.
C7_AtMostOneUtterance == Len(speechQueue) <= 1

\* C8 (as claimed): when recording is entered again after a Take was
\* completed, the earlier Take and Transcript are cleared.
C8_RerecordClearsTakeAndTranscript ==
  (step = "recording" /\ lastEvent = "startRecording" /\ takeSeq >= 1) =>
    /\ recordedBlob = 0
    /\ transcript = <<>> /\ editedTranscript = <<>>

\* C9: when SymptomExtraction yields the key fever, followup is entered with
\* the three fever questions in table order, index 0, three empty answers,
\* and no FollowUpGeneration request has been issued.
C9_FeverLoadsStaticSetFirst ==
  [][ (step = "followupLoading" /\ lastEvent' = "extracted" /\ extractedSymptom' = "fever") =>
        /\ step' = "followup"
        /\ staticFollowUpQuestions' = <<"fever1", "fever2", "fever3">>
        /\ currentStaticIndex' = 0
        /\ staticFollowUpAnswers' = <<<<>>, <<>>, <<>>>>
        /\ \A k \in DOMAIN history' : history'[k].svc # "FollowUpGeneration"
    ]_vars

\* followup was just entered with the key fever.
C9_Witness ==
  /\ step = "followup"
  /\ extractedSymptom = "fever"
  /\ lastEvent = "extracted"

\* C10 (as claimed): out of followupLoading, a key of the table leads to
\* followup and every other key leads to dynamicFollowupLoading with an empty
\* static set.
C10_RoutingFollowsLookup ==
  [][ (step = "followupLoading" /\ lastEvent' = "extracted") =>
        IF extractedSymptom' \in DeclaredKeys
          THEN step' = "followup"
          ELSE step' = "dynamicFollowupLoading" /\ staticFollowUpQuestions' = <<>>
    ]_vars

\* This step is a click on Next in followup, resp. dynamicFollowup (a click
\* repeated with nothing in between that changes nothing is a stuttering step).
StaticNextClicked ==
  /\ lastEvent' # lastEvent
  /\ lastEvent' \in {"nextStaticRejected", "nextStatic", "staticDone"}

DynamicNextClicked ==
  /\ lastEvent' # lastEvent
  /\ lastEvent' \in {"nextDynamicRejected", "nextDynamic", "dynamicDone"}

\* The answer of the question on screen (empty if none was typed).
CurrentAnswer(answers, index) ==
  IF index + 1 \in DOMAIN answers THEN answers[index + 1] ELSE <<>>

\* C11: a Next clicked while the current answer has no visible character
\* changes nothing: step, indices, question sets, answers, Transcript,
\* SymptomKey and every other field keep their values, nothing is narrated
\* and no backend call is started.
C11_RejectedNextChangesNothing ==
  [][ /\ (StaticNextClicked
            /\ ~HasVisibleChar(CurrentAnswer(staticFollowUpAnswers, currentStaticIndex)))
         => UNCHANGED <<appVars, recorderVars, speechQueue, pending, history>>
      /\ (DynamicNextClicked
            /\ ~HasVisibleChar(CurrentAnswer(dynamicFollowUpAnswers, currentDynamicIndex)))
         => UNCHANGED <<appVars, recorderVars, speechQueue, pending, history>>
    ]_vars

\* Next was rejected on the second dynamic question, whose answer is white space.
C11_Witness ==
  /\ lastEvent = "nextDynamicRejected"
  /\ step = "dynamicFollowup"
  /\ currentDynamicIndex = 1
  /\ CurrentAnswer(dynamicFollowUpAnswers, 1) = <<" ">>

\* The recorder's flag agrees with its MediaRecorder, it records only while
\* it is on screen, and Stop can be used only while it records.
RecorderIdleOrRecording ==
  /\ isRecording <=> mediaRecorderRef = "recording"
  /\ isRecording => step = "recording"
  /\ ~isRecording => ~CanStopRecording

\* This step is a click on Stop Recording.
StopClicked == lastEvent' # lastEvent /\ lastEvent' = "stopRecording"

\* This step hands a Take to the orchestrator.
TakeDelivered == takeSeq' # takeSeq

\* C12: the recorder is idle or recording, never both; Stop cannot act while
\* it is idle; a Stop while recording makes it idle, and each such Stop is
\* followed by the hand-off of exactly one new Take, which the orchestrator
\* stores and sends to Transcription.
C12_StopYieldsOneTake ==
  /\ []RecorderIdleOrRecording
  /\ [][ /\ StopClicked =>
              /\ isRecording /\ ~isRecording'
              /\ mediaRecorderRef' = "stopping"
              /\ ~TakeDelivered
         /\ TakeDelivered =>
              /\ takeSeq' = takeSeq + 1
              /\ mediaRecorderRef = "stopping" /\ mediaRecorderRef' = "inactive"
              /\ ~isRecording /\ ~isRecording'
              /\ recordedBlob' = takeSeq'
              /\ Requested("Transcription") /\ Last(history').take = takeSeq'
         /\ (mediaRecorderRef # "stopping" /\ mediaRecorderRef' = "stopping") => StopClicked
       ]_vars

\* A recording was stopped and its Take handed off.
C12_Witness ==
  /\ takeSeq = 1 /\ recordedBlob = 1
  /\ mediaRecorderRef = "inactive" /\ ~isRecording
  /\ lastEvent = "recordingComplete"

\* C13 (as claimed): every acquired microphone stream is released by Stop or
\* by the teardown, so a stream is held exactly while the recorder records.
C13_StreamHeldOnlyWhileRecording ==
  streamsHeld = (IF isRecording THEN 1 ELSE 0)

\* The position of a service in the pipeline.
SvcRank ==
  [Transcription |-> 1, SymptomExtraction |-> 2, FollowUpGeneration |-> 3,
   GuidelineGeneration |-> 4]

IsRequest(k) == history[k].ev = "request"

\* C14: the requests on record are in the order Transcription,
\* SymptomExtraction, FollowUpGeneration, GuidelineGeneration; each service is
\* requested at most once; a request is issued only after the call of the
\* service before it returned; Transcription carries the Take,
\* FollowUpGeneration the transcript sent to SymptomExtraction, and
\* GuidelineGeneration the key sent to FollowUpGeneration.
C14_CallsInPipelineOrder ==
  \A k \in DOMAIN history : IsRequest(k) =>
    /\ history[k].svc \in DOMAIN SvcRank
    /\ \A j \in DOMAIN history :
         (IsRequest(j) /\ j # k) => history[j].svc # history[k].svc
    /\ \A j \in 1..(k - 1) :
         IsRequest(j) => SvcRank[history[j].svc] < SvcRank[history[k].svc]
    /\ SvcRank[history[k].svc] > 1 =>
         \E j \in 1..(k - 1) :
           /\ history[j].ev = "ok"
           /\ SvcRank[history[j].svc] = SvcRank[history[k].svc] - 1
    /\ history[k].svc = "Transcription" =>
         history[k].take >= 1 /\ history[k].take = recordedBlob
    /\ history[k].svc = "FollowUpGeneration" =>
         \E j \in 1..(k - 1) :
           /\ IsRequest(j) /\ history[j].svc = "SymptomExtraction"
           /\ history[j].transcript = history[k].transcript
    /\ history[k].svc = "GuidelineGeneration" =>
         \E j \in 1..(k - 1) :
           /\ IsRequest(j) /\ history[j].svc = "FollowUpGeneration"
           /\ history[j].key = history[k].key

\* All four calls were made and the last one returned.
C14_Witness ==
  /\ Len(history) = 8
  /\ history[8].ev = "ok" /\ history[8].svc = "GuidelineGeneration"
  /\ guidelines # ""

\* C15: once a call has failed, no call is in flight and no request is issued
\* after it: the failure stays the last entry of the record, whatever
\* happens next (narration ending, the error dialog being closed).
C15_NoCallAfterFailure ==
  \A k \in DOMAIN history :
    history[k].ev = "failed" => (k = Len(history) /\ pending = <<>>)

\* SymptomExtraction failed, the dialog was closed and narration has ended.
C15_Witness ==
  /\ history # <<>>
  /\ Last(history).ev = "failed" /\ Last(history).svc = "SymptomExtraction"
  /\ errorMsg = "" /\ speechQueue = <<>>
  /\ step = "followupLoading"

\* Some control the patient can use is on screen.
SomeControlUsable ==
  \/ overlayVisible \/ errorMsg # ""
  \/ CanStartRecording \/ CanStopRecording \/ CanProceed
  \/ CanNextStatic \/ CanNextDynamic

\* C16 (as claimed): after a refused microphone or a failed call, when no
\* call is pending, the patient has a control to act on or the recorder is
\* capturing (or about to): the session is never left without a way on.
C16_RecoverableAfterError ==
  ( /\ pending = <<>>
    /\ \/ lastEvent = "micDenied"
       \/ (history # <<>> /\ Last(history).ev = "failed") )
  => (SomeControlUsable \/ isRecording \/ micPending)

\* This step is a click on Proceed to Follow-Up.
ProceedClicked ==
  /\ lastEvent' # lastEvent
  /\ lastEvent' \in {"proceed", "proceedIgnored"}

\* C17 (as claimed): a click on Proceed in review enters followupLoading and
\* requests SymptomExtraction when the edited Transcript is not empty, and
\* changes neither the step nor the call record when it is empty; an edit of
\* the Transcript does not change the step.
C17_ProceedOnlyWithTranscript ==
  [][ /\ ProceedClicked =>
           /\ step = "review"
           /\ IF editedTranscript # <<>>
                THEN /\ step' = "followupLoading"
                     /\ Requested("SymptomExtraction")
                     /\ Last(history').transcript = editedTranscript
                ELSE /\ step' = "review"
                     /\ history' = history /\ pending' = pending
      /\ editedTranscript' # editedTranscript /\ lastEvent' = "editTranscript"
           => step' = step
    ]_vars

\* The requests on record sent to svc.
RequestsTo(svc) == {k \in DOMAIN history : IsRequest(k) /\ history[k].svc = svc}

\* C18 (as claimed): the GuidelineGeneration request carries the transcript
\* that was sent to SymptomExtraction and to FollowUpGeneration, the
\* SymptomKey, and the static question-answer pairs followed by the dynamic
\* ones, in question order.
C18_GuidelinesCarryConfirmedTranscript ==
  \A k \in RequestsTo("GuidelineGeneration") :
    /\ \A j \in RequestsTo("SymptomExtraction") \cup RequestsTo("FollowUpGeneration") :
         history[j].transcript = history[k].transcript
    /\ history[k].key = extractedSymptom
    /\ history[k].qa = QA(staticFollowUpQuestions, staticFollowUpAnswers)
                         \o QA(dynamicFollowUpQuestions, dynamicFollowUpAnswers)

\* Exactly one utterance was issued in this step: the narrator holds it alone
\* (after a cancel) or behind what it held before.
SaidOne == Len(speechQueue') = 1 \/ Len(speechQueue') = Len(speechQueue) + 1

\* The last utterance issued in this step is text.
SaidLast(text) == SaidOne /\ Last(speechQueue') = text

\* C19 (as claimed): entering recording, entering review, arriving at a
\* question index in followup or dynamicFollowup and entering final each issue
\* exactly one utterance; an edit of an answer issues none.
C19_OneUtterancePerEntry ==
  [][ /\ (step # "recording" /\ step' = "recording") => SaidOne
      /\ (step # "review" /\ step' = "review") => SaidLast("review")
      /\ (step # "final" /\ step' = "final") => SaidLast("waitFinal")
      /\ (step' = "followup"
            /\ (step # "followup" \/ currentStaticIndex' # currentStaticIndex))
         => /\ currentStaticIndex' + 1 \in DOMAIN staticFollowUpQuestions'
            /\ SaidLast(staticFollowUpQuestions'[currentStaticIndex' + 1])
      /\ (step' = "dynamicFollowup"
            /\ (step # "dynamicFollowup" \/ currentDynamicIndex' # currentDynamicIndex))
         => /\ currentDynamicIndex' + 1 \in DOMAIN dynamicFollowUpQuestions'
            /\ SaidLast(dynamicFollowUpQuestions'[currentDynamicIndex' + 1])
      /\ (staticFollowUpAnswers' # staticFollowUpAnswers /\ step = "followup"
            /\ step' = "followup")
         => speechQueue' = speechQueue
      /\ (dynamicFollowUpAnswers' # dynamicFollowUpAnswers /\ step = "dynamicFollowup"
            /\ step' = "dynamicFollowup")
         => speechQueue' = speechQueue
    ]_vars

\* What arriving at question index + 1 of a question list narrates: the
\* question alone, or nothing when the list has no question there.
SaidQuestion(questions, index) ==
  IF index + 1 \in DOMAIN questions
    THEN speechQueue' = <<questions[index + 1]>>
    ELSE speechQueue' = speechQueue

\* C19 (amended): entering recording silences the narrator and issues no
\* utterance; entering review, arriving at a question index that holds a
\* question, and entering final each leave exactly one utterance, the one of
\* that entry; arriving at an index of an empty question set issues none; an
\* edit of an answer issues none.
C19_OneUtterancePerEntryExceptRecording ==
  [][ /\ (step # "recording" /\ step' = "recording") => speechQueue' = <<>>
      /\ (step # "review" /\ step' = "review") => speechQueue' = <<"review">>
      /\ (step # "final" /\ step' = "final") => speechQueue' = <<"waitFinal">>
      /\ (step' = "followup"
            /\ (step # "followup" \/ currentStaticIndex' # currentStaticIndex))
         => SaidQuestion(staticFollowUpQuestions', currentStaticIndex')
      /\ (step' = "dynamicFollowup"
            /\ (step # "dynamicFollowup" \/ currentDynamicIndex' # currentDynamicIndex))
         => SaidQuestion(dynamicFollowUpQuestions', currentDynamicIndex')
      /\ (staticFollowUpAnswers' # staticFollowUpAnswers /\ step = "followup"
            /\ step' = "followup")
         => speechQueue' = speechQueue
      /\ (dynamicFollowUpAnswers' # dynamicFollowUpAnswers /\ step = "dynamicFollowup"
            /\ step' = "dynamicFollowup")
         => speechQueue' = speechQueue
    ]_vars

\* The second fever question was just reached and is being narrated.
C19_Witness ==
  /\ step = "followup" /\ currentStaticIndex = 1
  /\ lastEvent = "nextStatic"
  /\ speechQueue = <<"fever2">>

\* The keys of the table in declaration order, as texts.
TableKeys ==
  << <<"f", "e", "v", "e", "r">>,
     <<"c", "o", "u", "g", "h", "i", "n", "g">>,
     <<"h", "e", "a", "d", "a", "c", "h", "e">>,
     <<"b", "a", "c", "k", "p", "a", "i", "n">>,
     <<"t", "o", "o", "t", "h", "a", "c", "h", "e">> >>

\* key occurs in token as a contiguous part (or equals it).
Contains(token, key) ==
  \E at \in 0..(Len(token) - Len(key)) :
    \A i \in 1..Len(key) : token[at + i] = key[i]

\* The position of the first table key contained in token, 0 if there is none.
FirstMatch(token) ==
  IF \E m \in DOMAIN TableKeys : Contains(token, TableKeys[m])
    THEN CHOOSE m \in DOMAIN TableKeys :
           /\ Contains(token, TableKeys[m])
           /\ \A n \in 1..(m - 1) : ~Contains(token, TableKeys[n])
    ELSE 0

\* The cleaned token of a response: first line, lowercased, letters only.
CleanedToken(symptom) == StripNonLetters(toLowerCase(firstLine(symptom)))

\* The three questions the table holds under a key.
QuestionsOf(key) == <<Join(key) \o "1", Join(key) \o "2", Join(key) \o "3">>

\* C20 (as claimed): the lookup made when SymptomExtraction returns yields
\* the questions of the first table entry whose key is contained in the
\* cleaned token, and finds nothing only when no key is contained in it.
C20_LookupFirstContainedKey ==
  [][ (step = "followupLoading" /\ lastEvent' = "extracted") =>
        \A symptom \in SymptomLabels :
          Join(CleanedToken(symptom)) = extractedSymptom' =>
            LET m == FirstMatch(CleanedToken(symptom)) IN
            IF m = 0
              THEN step' = "dynamicFollowupLoading"
              ELSE /\ step' = "followup"
                   /\ staticFollowUpQuestions' = QuestionsOf(TableKeys[m])
    ]_vars

\* The question-answer pairs of a fully answered question list.
Pairs(questions, answers) ==
  [i \in 1..Len(questions) |-> [question |-> questions[i], answer |-> answers[i]]]

\* C21: the FollowUpGeneration request carries the edited Transcript (the one
\* sent to SymptomExtraction), the SymptomKey and the static questions with
\* the answers given (no pair when no static set was found); when the call
\* returns, dynamicFollowup is entered with index 0 and one empty answer per
\* returned question.
C21_DynamicSetLoadedFromConfirmedData ==
  [][ /\ Requested("FollowUpGeneration") =>
           /\ Last(history').transcript = editedTranscript'
           /\ \A j \in RequestsTo("SymptomExtraction") :
                history[j].transcript = Last(history').transcript
           /\ Last(history').key = extractedSymptom'
           /\ Len(staticFollowUpAnswers') = Len(staticFollowUpQuestions')
           /\ Last(history').qa = Pairs(staticFollowUpQuestions', staticFollowUpAnswers')
           /\ extractedSymptom' \notin DeclaredKeys => Last(history').qa = <<>>
      /\ (step = "dynamicFollowupLoading" /\ lastEvent' = "generated") =>
           /\ step' = "dynamicFollowup"
           /\ currentDynamicIndex' = 0
           /\ Len(dynamicFollowUpAnswers') = Len(dynamicFollowUpQuestions')
           /\ \A i \in DOMAIN dynamicFollowUpAnswers' : dynamicFollowUpAnswers'[i] = <<>>
    ]_vars

\* Two dynamic questions were loaded after the fever questions, for a
\* transcript the patient had edited.
C21_Witness ==
  /\ step = "dynamicFollowup" /\ lastEvent = "generated"
  /\ extractedSymptom = "fever"
  /\ Len(dynamicFollowUpQuestions) = 2
  /\ editedTranscript # transcript

\* An index and an answer list that fit a question list.
FitsQuestions(questions, answers, index) ==
  /\ 0 <= index /\ index < Len(questions)
  /\ Len(answers) = Len(questions)

\* after differs from before at most in the slot of index (counted from 0).
OnlySlotChanged(before, after, index) ==
  /\ Len(after) = Len(before)
  /\ \A j \in DOMAIN before : j # index + 1 => after[j] = before[j]

C23_NarrationFailureChangesNothing ==
  [][ /\ (lastEvent' # lastEvent /\ lastEvent' \in {"overlayClick", "overlayClickThrew"})
         => ~overlayVisible'
      /\ TakeDelivered => (Requested("Transcription") /\ loading')
      /\ (lastEvent' # lastEvent /\ lastEvent' \in {"proceed", "proceedThrew"})
         => (step' = "followupLoading" /\ Requested("SymptomExtraction"))
    ]_vars

\* This step is the arrival of a response that lacks its field.
MalformedArrived ==
  /\ Len(history') > Len(history)
  /\ \E k \in (Len(history) + 1)..Len(history') : history'[k].ev = "malformed"

\* C24 (as claimed): a response that lacks its field is reported as an error
\* and the session does not advance: the step keeps its value.
C24_MalformedResponseIsAnError ==
  [][ MalformedArrived => (errorMsg' # "" /\ step' = step) ]_vars

\* C25 (as claimed): at most one microphone stream is held at any instant,
\* also when Start is clicked again before the first access request has
\* resolved.
C25_AtMostOneStreamHeld == streamsHeld <= 1

\* C26 (as claimed): while the session is in review the Transcript changes
\* only through the patient's edits, and the step changes only when the
\* extraction the patient's confirmation started returns.
C26_ReviewTranscriptOnlyEdited ==
  [][ step = "review" =>
        /\ (editedTranscript' # editedTranscript => lastEvent' = "editTranscript")
        /\ (transcript' # transcript => lastEvent' = "editTranscript")
        /\ (step' # step => lastEvent' = "extracted")
    ]_vars

\* C27 (as claimed): while the recorder is recording its tick timer runs;
\* while it is idle no tick timer runs and the elapsed-seconds counter is 0.
C27_TimerRunsExactlyWhileRecording ==
  /\ isRecording => timerRef = "live"
  /\ ~isRecording => (timerRef # "live" /\ recordingTime = 0)

\* The plan has been stored: the final page shows it.
PlanStored == step = "final" /\ guidelines # ""

\* C28: once the plan is stored, no step of the program changes the step or
\* the plan, and none issues a backend request.
C28_PlanIsTerminal ==
  [][ PlanStored =>
        /\ step' = step
        /\ guidelines' = guidelines
        /\ \A k \in (Len(history) + 1)..Len(history') : history'[k].ev # "request"
        /\ Len(pending') <= Len(pending)
    ]_vars

\* The plan is stored and the program has taken a further step: the closing
\* narration has finished playing.
C28_Witness == PlanStored /\ lastEvent = "planStored" /\ speechQueue = <<>>

\* C29 (as claimed): in followup and in dynamicFollowup the active question
\* set has at least one question and the current index points at one.
C29_ActiveSetHasCurrentQuestion ==
  /\ step = "followup" =>
       /\ Len(staticFollowUpQuestions) >= 1
       /\ currentStaticIndex + 1 \in DOMAIN staticFollowUpQuestions
  /\ step = "dynamicFollowup" =>
       /\ Len(dynamicFollowUpQuestions) >= 1
       /\ currentDynamicIndex + 1 \in DOMAIN dynamicFollowUpQuestions

\* C30 (as claimed): on the success path, under fair progress, the session
\* eventually shows the final step with a plan stored.
C30_EventuallyPlan == <>(step = "final" /\ guidelines # "")

\* C31 (as claimed): in the earlier orchestrator, while the session stays in
\* dynamicFollowup the dynamic questions do not change, the dynamic index
\* changes only by an accepted Next and the dynamic answers only by an edit.
C31_DynamicSetStableOnceEntered ==
  [][ (step = "dynamicFollowup" /\ step' = "dynamicFollowup") =>
        /\ dynamicFollowUpQuestions' = dynamicFollowUpQuestions
        /\ (currentDynamicIndex' # currentDynamicIndex => lastEvent' = "nextDynamic")
        /\ (dynamicFollowUpAnswers' # dynamicFollowUpAnswers =>
              lastEvent' = "editDynamicAnswer")
    ]_vars

\* The welcome narration is handed to the narrator in this step.
WelcomeIssued ==
  /\ Len(speechQueue') > Len(speechQueue)
  /\ speechQueue'[Len(speechQueue')] = "welcome"

LabelAlphabet == {"F", "e", " ", "\n", "."}
RawLabels == UNION {[1..n -> LabelAlphabet] : n \in 0..MaxLabelLen}

\* The characters of the key computed from a raw label.
KeyChars(symptom) == StripNonLetters(trim(toLowerCase(firstLine(symptom))))

\* What the claim says of the key of one raw label.
KeyIsNormalised(symptom) ==
  LET k == KeyChars(symptom) IN
  /\ cleanedSymptom(symptom) = Join(k)
  /\ \A i \in DOMAIN k : k[i] \in LowerLetters
  /\ k = StripNonLetters(toLowerCase(firstLine(symptom)))
  /\ KeyChars(k) = k
  /\ \A rest \in SymptomLabels :
       /\ firstLine(symptom \o <<"\n">> \o rest) = firstLine(symptom)
       /\ cleanedSymptom(symptom \o <<"\n">> \o rest) = cleanedSymptom(firstLine(symptom))

\* C33: when SymptomExtraction returns, the stored key is the key of the
\* returned label; it is made of the letters a-z of the lowercased first
\* line, normalising it again changes nothing, text after the first line
\* changes neither the key nor the route, and the route depends on the key
\* alone.  The same holds of every enumerated raw label.
C33_KeyFromFirstLineLettersOnly ==
  [][ (step = "followupLoading" /\ lastEvent' = "extracted") =>
        /\ \E symptom \in SymptomLabels :
             /\ extractedSymptom' = cleanedSymptom(symptom)
             /\ extractedSymptom' = cleanedSymptom(firstLine(symptom))
             /\ (step' = "followup") = MappingHas(cleanedSymptom(firstLine(symptom)))
             /\ step' \in {"followup", "dynamicFollowupLoading"}
        /\ \A symptom \in SymptomLabels \cup RawLabels : KeyIsNormalised(symptom)
    ]_vars

\* The label "Back Pain." was returned: its key lost the capitals, the space
\* and the full stop, and routed to the static set.
C33_Witness ==
  /\ lastEvent = "extracted" /\ extractedSymptom = "backpain" /\ step = "followup"
  /\ staticFollowUpQuestions = staticFollowUpQuestionsMapping["backpain"]

\* C34 (as claimed): the loading flag is true exactly when a backend call is
\* pending.
C34_LoadingIffCallPending == loading = (pending # <<>>)

\* The position of a step in the order of the session.
StepRank ==
  [initial |-> 1, recording |-> 2, review |-> 3, followupLoading |-> 4, followup |-> 5,
   dynamicFollowupLoading |-> 6, dynamicFollowup |-> 7, final |-> 8]

\* C35: a change of step goes to the next step of the order, or from
\* followupLoading past followup to dynamicFollowupLoading, or to initial.
C35_StepOnlyMovesForward ==
  [][ step' # step =>
        \/ StepRank[step'] = StepRank[step] + 1
        \/ (step = "followupLoading" /\ step' = "dynamicFollowupLoading")
        \/ step' = "initial"
    ]_vars

\* A session that went through every step, the static set included.
C35_Witness ==
  /\ step = "final"
  /\ Len(staticFollowUpQuestions) > 0
  /\ Len(dynamicFollowUpQuestions) > 0
  /\ \E k \in DOMAIN history : history[k].ev = "request" /\ history[k].svc = "Transcription"

\* The Take of history entry k was handed to the orchestrator.
HandedOver(k) == history[k].ev = "request" /\ history[k].svc = "Transcription"

\* C36 (as claimed): no Take is handed to the orchestrator twice, and a Take
\* is handed over only by Next, while the recorder still holds it.
C36_TakeHandedOverAtMostOnce ==
  /\ [](\A j, k \in DOMAIN history :
          (j < k /\ HandedOver(j) /\ HandedOver(k)) => history[j].take # history[k].take)
  /\ [][ ( /\ Len(history') > Len(history)
            /\ history'[Len(history')].ev = "request"
            /\ history'[Len(history')].svc = "Transcription" ) =>
           (recordingBlob # 0 /\ history'[Len(history')].take = recordingBlob)
     ]_vars

====
